---- MODULE Spec2Model ----
(***************************************************************************)
(* State-machine model of node-yauzl-plus: the random-access Reader        *)
(* (src/src/reader.ts), the Zip directory locator / entry reader           *)
(* (src/src/types.ts) and the entry stream pipeline (Entry.openReadStream  *)
(* and ValidateUncompressedSizeStream, src/src/reader.ts).                 *)
(*                                                                         *)
(* Geometry.  TLC integers are 32-bit, so 2^32 cannot be written down.     *)
(* Every byte quantity of the ZIP format is therefore modelled in a        *)
(* reduced geometry: a "32-bit" field holds 0 .. FOUR_GIB-1 with           *)
(* FOUR_GIB = 128, a "16-bit" field holds 0 .. U16_MAX with U16_MAX = 7,   *)
(* and the fixed record lengths are reduced likewise, keeping the          *)
(* relations the code relies on (CDH_MIN_LENGTH = Local File Header +      *)
(* Data Descriptor, CDH_MAX_LENGTH_MAC < CDH_MAX_LENGTH, wrap-around of    *)
(* offsets, sizes and counts).  Each constant names the source line that   *)
(* sets the full-width value.  All arithmetic is the code's arithmetic on  *)
(* these values; truncation is done with % exactly where a writer or the   *)
(* code truncates.                                                         *)
(***************************************************************************)
EXTENDS Integers, Sequences, FiniteSets, TLC

(***************************************************************************)
(* Program constants (reduced geometry).                                   *)
(***************************************************************************)
U16_MAX == 7
U16_RANGE == 8
U32_MAX == 127
FOUR_GIB == 128
EOCDR_WITHOUT_COMMENT_SIZE == 1
MAX_EOCDR_COMMENT_SIZE == U16_MAX
ZIP64_EOCDL_SIZE == 1
ZIP64_EOCDR_SIZE == 2
ZIP64_EOCDR_PREFIX == 1
MAC_CDH_EXTRA_FIELD_ID == 22613
MAC_CDH_EXTRA_FIELD_LENGTH == 1
MAC_CDH_EXTRA_FIELDS_LENGTH == 1
MAC_LFH_EXTRA_FIELDS_LENGTH == 1
CDH_MIN_LENGTH == 2
CDH_MAX_LENGTH == CDH_MIN_LENGTH + (U16_MAX * 3)
CDH_MAX_LENGTH_MAC == CDH_MIN_LENGTH + (U16_MAX + MAC_CDH_EXTRA_FIELDS_LENGTH)
LFH_LENGTH == 1
DATA_DESCRIPTOR_LENGTH == 1
DATA_DESCRIPTOR_READ == 2
DEFLATE_MAX_RATIO == 4
MAC_VERSION_MADE_BY == 789
ZIP64_EIEF_ID == 1

\* JavaScript null (a field that holds no number yet).
NULL == -1

\* JavaScript ToNumber on a number-or-null operand of +, -, %: null is 0.
Num(x) == IF x = NULL THEN 0 ELSE x

Max(a, b) == IF a >= b THEN a ELSE b

\* Math.ceil(a / b) for a >= 0, b > 0.
CeilDiv(a, b) == (a + b - 1) \div b

\* Math.floor(a / b) for b > 0 (a may be negative; \div floors).
FloorDiv(a, b) == a \div b

\* JavaScript a % b for b > 0: the result takes the sign of a.
JsMod(a, b) == IF a >= 0 THEN a % b ELSE 0 - ((0 - a) % b)

\* a & b for a mask 0 <= b < 2^16: bit by bit, on the low 16 bits of a (taken
\* in two's complement when a is negative, as JavaScript does).
RECURSIVE BitAndNat(_, _)
BitAndNat(a, b) ==
    IF a = 0 \/ b = 0 THEN 0
    ELSE (IF (a % 2 = 1) /\ (b % 2 = 1) THEN 1 ELSE 0) + 2 * BitAndNat(a \div 2, b \div 2)

BitAnd(a, b) == BitAndNat(a % 65536, b)

RECURSIVE SumSeq(_)
SumSeq(s) == IF s = <<>> THEN 0 ELSE Head(s) + SumSeq(Tail(s))

(***************************************************************************)
(* The archive file: what reader.read(offset, n) finds at an offset.       *)
(* A file is a size and, per record kind, a function from the offsets that *)
(* carry that record's signature to the fields the code decodes there.     *)
(***************************************************************************)

\* Filenames are sequences of one-character strings.
EndsWithSlashChars(fn) == Len(fn) > 0 /\ fn[Len(fn)] = "/"

\* Entry shapes a writer lays out: k is the kind, fn the filename, c the real
\* compressed size, u the real uncompressed size.
MacFile(fn, c, u) == [k |-> "file", fn |-> fn, c |-> c, u |-> u]
MacFolder(fn) == [k |-> "folder", fn |-> fn, c |-> 0, u |-> 0]
MacSymlink(fn, c) == [k |-> "symlink", fn |-> fn, c |-> c, u |-> c]
PlainStored(fn, c) == [k |-> "stored", fn |-> fn, c |-> c, u |-> c]
PlainDeflated(fn, c, u) == [k |-> "deflated", fn |-> fn, c |-> c, u |-> u]
\* A file another writer lays out exactly as Mac Archive Utility does, except
\* that its Local File Header carries the CRC and the sizes.
Lookalike(fn, c, u) == [k |-> "lookalike", fn |-> fn, c |-> c, u |-> u]
\* Files with the encryption bit set (stored with the 12-byte encryption
\* header, or deflated), and a file compressed with method 12 (bzip2).
StoredEncrypted(fn, u) == [k |-> "encrypted", fn |-> fn, c |-> u + 12, u |-> u]
DeflatedEncrypted(fn, c, u) == [k |-> "encdeflated", fn |-> fn, c |-> c, u |-> u]
Bzip2(fn, c, u) == [k |-> "bzip2", fn |-> fn, c |-> c, u |-> u]
\* A stored file of c bytes whose headers state `claimed` bytes, as in a
\* truncated or corrupt archive.
Overrun(fn, c, claimed) == [k |-> "overrun", fn |-> fn, c |-> c, u |-> claimed]
ShapeStatedSize(e) == IF e.k = "overrun" THEN e.u ELSE e.c

ShapeIsMac(e) == e.k \in {"file", "folder", "symlink", "lookalike"}
ShapeHasExtra(e) == e.k \in {"file", "folder", "lookalike"}
ShapeMethod(e) ==
    IF e.k \in {"file", "deflated", "lookalike", "encdeflated"} THEN 8
    ELSE IF e.k = "bzip2" THEN 12 ELSE 0
ShapeFlag(e) ==
    IF e.k \in {"file", "lookalike"} THEN 8
    ELSE IF e.k \in {"encrypted", "encdeflated"} THEN 1 ELSE 0
ShapeLfhLen(e) ==
    LFH_LENGTH + Len(e.fn) + (IF ShapeHasExtra(e) THEN MAC_LFH_EXTRA_FIELDS_LENGTH ELSE 0)
ShapeDdLen(e) == IF e.k \in {"file", "lookalike"} THEN DATA_DESCRIPTOR_LENGTH ELSE 0
ShapeDataLen(e) == ShapeLfhLen(e) + e.c + ShapeDdLen(e)
ShapeCdhLen(e) ==
    CDH_MIN_LENGTH + Len(e.fn) + (IF ShapeHasExtra(e) THEN MAC_CDH_EXTRA_FIELDS_LENGTH ELSE 0)
ShapeCrc(e) == IF e.k = "folder" THEN 0 ELSE 5

\* Offset of entry i's Local File Header / of its CDH relative to the directory.
LfhOffsetOf(es, i) == SumSeq([j \in 1 .. (i - 1) |-> ShapeDataLen(es[j])])
CdhRelOffsetOf(es, i) == SumSeq([j \in 1 .. (i - 1) |-> ShapeCdhLen(es[j])])

\* The Central Directory File Header a writer emits for shape e whose Local
\* File Header is at offset lfhOff.  A Mac Archive Utility writer and a
\* spec-compliant writer of small archives both store the low 32 bits.
ShapeCdh(e, lfhOff) ==
    [ versionMadeBy |-> IF ShapeIsMac(e) THEN MAC_VERSION_MADE_BY ELSE 20,
      versionNeededToExtract |-> IF ShapeMethod(e) = 8 THEN 20 ELSE 10,
      generalPurposeBitFlag |-> ShapeFlag(e),
      compressionMethod |-> ShapeMethod(e),
      crc32 |-> ShapeCrc(e),
      compressedSize |-> ShapeStatedSize(e) % FOUR_GIB,
      uncompressedSize |-> e.u % FOUR_GIB,
      filename |-> e.fn,
      extraFieldLength |-> IF ShapeHasExtra(e) THEN MAC_CDH_EXTRA_FIELDS_LENGTH ELSE 0,
      extraFields |-> IF ShapeHasExtra(e)
                        THEN << [id |-> MAC_CDH_EXTRA_FIELD_ID,
                                 length |-> MAC_CDH_EXTRA_FIELD_LENGTH,
                                 values |-> <<>>] >>
                        ELSE <<>>,
      extraFieldsOverflow |-> FALSE,
      commentLength |-> 0,
      fileHeaderOffset |-> lfhOff % FOUR_GIB ]

\* The Local File Header for shape e: Mac writers leave crc and sizes 0 and
\* append a Data Descriptor; plain writers store the real values.
ShapeLfh(e) ==
    [ crc32 |-> IF e.k \in {"file", "folder", "symlink"} THEN 0 ELSE ShapeCrc(e),
      compressedSize |-> IF e.k \in {"file", "folder", "symlink"} THEN 0
                        ELSE ShapeStatedSize(e) % FOUR_GIB,
      uncompressedSize |-> IF e.k \in {"file", "folder", "symlink"} THEN 0 ELSE e.u % FOUR_GIB,
      filenameLength |-> Len(e.fn),
      extraFieldsLength |-> IF ShapeHasExtra(e) THEN MAC_LFH_EXTRA_FIELDS_LENGTH ELSE 0 ]

ShapeDd(e) ==
    [ crc32 |-> ShapeCrc(e),
      compressedSize |-> e.c % FOUR_GIB,
      uncompressedSize |-> e.u % FOUR_GIB ]

\* The archive a writer produces from shapes es, with `gap` unused bytes
\* between the file data and the Central Directory, an EOCDR comment of
\* `comment` bytes, and the EOCDR fields truncated to their widths.
\* `real` is what the writer put in, for the properties to compare with:
\* the filenames in directory order, whether every entry is laid out as Mac
\* Archive Utility does, whether every size and offset fits its field below
\* the ZIP64 escape value, and whether the entry count does too (so that
\* nothing is truncated).
BuildArchive(es, gap, comment) ==
    LET n == Len(es)
        dataEnd == LfhOffsetOf(es, n + 1)
        cdOffset == dataEnd + gap
        cdSize == CdhRelOffsetOf(es, n + 1)
        footer == cdOffset + cdSize
        lfhOffs == {LfhOffsetOf(es, i) : i \in 1 .. n}
        IdxAtLfh(o) == CHOOSE i \in 1 .. n : LfhOffsetOf(es, i) = o
        cdhOffs == {cdOffset + CdhRelOffsetOf(es, i) : i \in 1 .. n}
        IdxAtCdh(o) == CHOOSE i \in 1 .. n : cdOffset + CdhRelOffsetOf(es, i) = o
        ddIdx == {i \in 1 .. n : ShapeDdLen(es[i]) > 0}
        DdOff(i) == LfhOffsetOf(es, i) + ShapeLfhLen(es[i]) + es[i].c
        ddOffs == {DdOff(i) : i \in ddIdx}
        IdxAtDd(o) == CHOOSE i \in ddIdx : DdOff(i) = o
        dataIdx == 1 .. n
        DataOff(i) == LfhOffsetOf(es, i) + ShapeLfhLen(es[i])
    IN  [ size |-> footer + EOCDR_WITHOUT_COMMENT_SIZE + comment,
          real |-> [ names |-> [i \in 1 .. n |-> es[i].fn],
                     mac |-> \A i \in 1 .. n : es[i].k \in {"file", "folder", "symlink"},
                     sizesFit |-> /\ cdOffset < U32_MAX
                                  /\ cdSize < U32_MAX
                                  /\ \A i \in 1 .. n :
                                        es[i].c < U32_MAX /\ es[i].u < U32_MAX,
                     fits |-> /\ n < U16_MAX
                              /\ cdOffset < U32_MAX
                              /\ cdSize < U32_MAX
                              /\ \A i \in 1 .. n : es[i].c < U32_MAX /\ es[i].u < U32_MAX ],
          eocdr |-> [o \in {footer} |->
                       [ diskNumber |-> 0,
                         entryCount |-> n % U16_RANGE,
                         centralDirectorySize |-> cdSize % FOUR_GIB,
                         centralDirectoryOffset |-> cdOffset % FOUR_GIB,
                         commentLength |-> comment ]],
          cdh |-> [o \in cdhOffs |-> ShapeCdh(es[IdxAtCdh(o)], LfhOffsetOf(es, IdxAtCdh(o)))],
          lfh |-> [o \in lfhOffs |-> ShapeLfh(es[IdxAtLfh(o)])],
          dd |-> [o \in ddOffs |-> ShapeDd(es[IdxAtDd(o)])],
          z64l |-> [o \in {} |-> 0],
          z64r |-> [o \in {} |-> 0],
          data |-> [o \in {DataOff(i) : i \in dataIdx} |->
                      LET e == es[CHOOSE i \in dataIdx : DataOff(i) = o]
                      IN  [c |-> e.c, u |-> e.u, crc |-> ShapeCrc(e), method |-> ShapeMethod(e)]] ]

(***************************************************************************)
(* Results (Result<T, string> of @zokugun/xtry): value is <<>> for null /  *)
(* void and <<v>> for a value.                                             *)
(***************************************************************************)
Err(msg) == [fails |-> TRUE, error |-> msg, value |-> <<>>]
Ok(v) == [fails |-> FALSE, error |-> "", value |-> <<v>>]
OK_NULL == [fails |-> FALSE, error |-> "", value |-> <<>>]
OK_TRUE == Ok(TRUE)
OK_FALSE == Ok(FALSE)

\* The set standing for `null` in the field _uncertainUncompressedSizeEntryRefs
\* (a Set of entry references otherwise; entries are named by their index).
NULL_REFS == {NULL}

(***************************************************************************)
(* Zip: pure helpers of src/src/types.ts.                                  *)
(***************************************************************************)

\* The fields of the ZIP64 Extended Information Extra Field the code reads:
\* the data of the last extra field with id 1, or <<>> when there is none.
RECURSIVE Zip64Eief(_)
Zip64Eief(extraFields) ==
    IF extraFields = <<>> THEN << >>
    ELSE LET last == extraFields[Len(extraFields)]
         IN  IF last.id = ZIP64_EIEF_ID THEN << last.values >>
             ELSE Zip64Eief(SubSeq(extraFields, 1, Len(extraFields) - 1))

\* Zip._readEntryAt once its reads have completed: decode the Central
\* Directory File Header found at `offset` of file f.
ReadEntryAt(f, footerOffset, offset) ==
    IF offset + CDH_MIN_LENGTH > footerOffset
    THEN Err("Invalid Central Directory File Header")
    ELSE IF offset + CDH_MIN_LENGTH > f.size
    THEN Err("Unexpected end of file")
    ELSE IF offset \notin DOMAIN f.cdh
    THEN OK_NULL
    ELSE
      LET h == f.cdh[offset]
          extraDataOffset == offset + CDH_MIN_LENGTH
          extraDataSize == Len(h.filename) + h.extraFieldLength + h.commentLength
          entryEnd == extraDataOffset + extraDataSize
          isZip64 == h.uncompressedSize = U32_MAX \/ h.compressedSize = U32_MAX
                     \/ h.fileHeaderOffset = U32_MAX
          eief == Zip64Eief(h.extraFields)
          vals == IF eief = <<>> THEN <<>> ELSE eief[1]
          idx0 == 0
          needU == h.uncompressedSize = U32_MAX
          idx1 == IF needU THEN idx0 + 1 ELSE idx0
          needC == h.compressedSize = U32_MAX
          idx2 == IF needC THEN idx1 + 1 ELSE idx1
          needO == h.fileHeaderOffset = U32_MAX
          uncompressedSize == IF isZip64 /\ needU /\ idx1 <= Len(vals) THEN vals[idx1]
                              ELSE h.uncompressedSize
          compressedSize == IF isZip64 /\ needC /\ idx2 <= Len(vals) THEN vals[idx2]
                            ELSE h.compressedSize
          fileHeaderOffset == IF isZip64 /\ needO /\ idx2 + 1 <= Len(vals) THEN vals[idx2 + 1]
                              ELSE h.fileHeaderOffset
      IN  IF BitAnd(h.generalPurposeBitFlag, 64) # 0
          THEN Err("Strong encryption is not supported")
          ELSE IF entryEnd > footerOffset
          THEN Err("Invalid Central Directory File Header")
          ELSE IF entryEnd > f.size
          THEN Err("Unexpected end of file")
          ELSE IF h.extraFieldsOverflow
          THEN Err("Extra field length exceeds extra field buffer size")
          ELSE IF isZip64 /\ eief = <<>>
          THEN Err("Expected ZIP64 Extended Information Extra Field")
          ELSE IF isZip64 /\ needU /\ idx1 > Len(vals)
          THEN Err("ZIP64 Extended Information Extra Field does not include uncompressed size")
          ELSE IF isZip64 /\ needC /\ idx2 > Len(vals)
          THEN Err("ZIP64 Extended Information Extra Field does not include compressed size")
          ELSE IF isZip64 /\ needO /\ idx2 + 1 > Len(vals)
          THEN Err("ZIP64 Extended Information Extra Field does not include relative header offset")
          ELSE IF fileHeaderOffset + LFH_LENGTH > footerOffset
          THEN Err("Invalid location for file data")
          ELSE Ok([ filename |-> h.filename,
                    compressedSize |-> compressedSize,
                    uncompressedSize |-> uncompressedSize,
                    uncompressedSizeIsCertain |-> TRUE,
                    compressionMethod |-> h.compressionMethod,
                    fileHeaderOffset |-> fileHeaderOffset,
                    fileDataOffset |-> NULL,
                    isZip64 |-> isZip64,
                    crc32 |-> h.crc32,
                    commentLength |-> h.commentLength,
                    extraFields |-> h.extraFields,
                    versionMadeBy |-> h.versionMadeBy,
                    versionNeededToExtract |-> h.versionNeededToExtract,
                    generalPurposeBitFlag |-> h.generalPurposeBitFlag,
                    filenameLength |-> Len(h.filename),
                    entryEnd |-> entryEnd ])

\* entryCountIsCertain(entryCount, centralDirectorySize)
EntryCountIsCertainFn(entryCount, centralDirectorySize) ==
    (entryCount + U16_RANGE) * CDH_MIN_LENGTH > centralDirectorySize

\* endsWithSlash(filename)
EndsWithSlash(filename) == EndsWithSlashChars(filename)

\* entryMaybeMac(entry)
EntryMaybeMac(entry) ==
    IF entry.versionMadeBy # MAC_VERSION_MADE_BY THEN FALSE
    ELSE IF entry.commentLength > 0 THEN FALSE
    ELSE IF entry.isZip64 THEN FALSE
    ELSE IF entry.versionNeededToExtract = 20
              /\ (entry.generalPurposeBitFlag # 8 \/ entry.compressionMethod # 8
                  \/ EndsWithSlash(entry.filename))
    THEN FALSE
    ELSE IF entry.versionNeededToExtract = 10
              /\ (entry.generalPurposeBitFlag # 0 \/ entry.compressionMethod # 0
                  \/ entry.uncompressedSize # entry.compressedSize)
    THEN FALSE
    ELSE IF entry.versionNeededToExtract = 10 /\ Len(entry.extraFields) = 0
    THEN ~(entry.compressedSize = 0 \/ EndsWithSlash(entry.filename))
    ELSE IF entry.versionNeededToExtract = 10
              /\ (entry.compressedSize # 0 \/ entry.crc32 # 0)
    THEN FALSE
    ELSE IF entry.versionNeededToExtract \notin {10, 20} THEN FALSE
    ELSE ~( Len(entry.extraFields) # 1
            \/ entry.extraFields[1].id # MAC_CDH_EXTRA_FIELD_ID
            \/ entry.extraFields[1].length # MAC_CDH_EXTRA_FIELD_LENGTH )

\* firstEntryMaybeMac(entry)
FirstEntryMaybeMac(entry) ==
    IF entry.fileHeaderOffset # 0 THEN FALSE ELSE EntryMaybeMac(entry)

\* Zip._recalculateEntryCount: the new entryCount, and whether it was raised.
RecalculateEntryCountTooLow(z, numEntriesRead, entryCursor) ==
    LET numEntriesRemaining == z.entryCount - numEntriesRead
        centralDirectoryRemaining ==
            z.centralDirectoryOffset + z.centralDirectorySize - entryCursor
        entryMaxLength == IF z.isMacArchive THEN CDH_MAX_LENGTH_MAC ELSE CDH_MAX_LENGTH
    IN  ~(numEntriesRemaining * entryMaxLength >= centralDirectoryRemaining)

\* A _recalculateEntryCount that raises the count to the minimum the
\* directory needs, instead of by a multiple of 65536.
RecalculateEntryCount_ToMinimum(z, numEntriesRead, entryCursor) ==
    LET numEntriesRemaining == z.entryCount - numEntriesRead
        centralDirectoryRemaining ==
            z.centralDirectoryOffset + z.centralDirectorySize - entryCursor
        minEntriesRemaining == CeilDiv(centralDirectoryRemaining, CDH_MAX_LENGTH_MAC)
    IN  IF ~RecalculateEntryCountTooLow(z, numEntriesRead, entryCursor) THEN z
        ELSE [z EXCEPT !.entryCount = @ + (minEntriesRemaining - numEntriesRemaining)]

RecalculateEntryCount(z, numEntriesRead, entryCursor) ==
    LET numEntriesRemaining == z.entryCount - numEntriesRead
        centralDirectoryRemaining ==
            z.centralDirectoryOffset + z.centralDirectorySize - entryCursor
        minEntriesRemaining == CeilDiv(centralDirectoryRemaining, CDH_MAX_LENGTH_MAC)
    IN  IF ~RecalculateEntryCountTooLow(z, numEntriesRead, entryCursor) THEN z
        ELSE [z EXCEPT !.entryCount =
                 @ + BitAnd(minEntriesRemaining - numEntriesRemaining + U16_MAX, U16_RANGE)]

\* Zip._recalculateEntryCountIsCertain
RecalculateEntryCountIsCertain(z, numEntriesRead, entryCursor) ==
    LET numEntriesRemaining == z.entryCount - numEntriesRead
        centralDirectoryRemaining ==
            z.centralDirectoryOffset + z.centralDirectorySize - entryCursor
    IN  IF EntryCountIsCertainFn(numEntriesRemaining, centralDirectoryRemaining)
        THEN [z EXCEPT !.entryCountIsCertain = TRUE]
        ELSE z

\* Zip._setAsMacArchive: the Zip's fields afterwards.
\* A _setAsMacArchive that sets isMacArchive but does not clear
\* isMaybeMacArchive (types.ts 1188 left out).
SetAsMacArchive_KeepsMaybe(z, numEntriesRead, entryCursor) ==
    LET z1 == [z EXCEPT !.isMacArchive = TRUE]
        z2 == IF ~z1.centralDirectorySizeIsCertain
              THEN [z1 EXCEPT !.centralDirectorySize = z1.footerOffset - z1.centralDirectoryOffset,
                              !.centralDirectorySizeIsCertain = TRUE]
              ELSE z1
        z3 == IF ~z2.entryCountIsCertain
              THEN RecalculateEntryCountIsCertain(
                       RecalculateEntryCount(z2, numEntriesRead, entryCursor),
                       numEntriesRead, entryCursor)
              ELSE z2
    IN  [z3 EXCEPT !._uncertainUncompressedSizeEntryRefs = NULL_REFS]

\* A _setAsMacArchive that, as the anchor does when it finds a Mac archive
\* (types.ts 553-555), flags the compressed sizes as uncertain.
SetAsMacArchive_SizesUncertain(z, numEntriesRead, entryCursor) ==
    LET z1 == [z EXCEPT !.isMacArchive = TRUE, !.isMaybeMacArchive = FALSE,
                        !.compressedSizesAreCertain = FALSE]
        z2 == IF ~z1.centralDirectorySizeIsCertain
              THEN [z1 EXCEPT !.centralDirectorySize = z1.footerOffset - z1.centralDirectoryOffset,
                              !.centralDirectorySizeIsCertain = TRUE]
              ELSE z1
        z3 == IF ~z2.entryCountIsCertain
              THEN RecalculateEntryCountIsCertain(
                       RecalculateEntryCount(z2, numEntriesRead, entryCursor),
                       numEntriesRead, entryCursor)
              ELSE z2
    IN  [z3 EXCEPT !._uncertainUncompressedSizeEntryRefs = NULL_REFS]

SetAsMacArchive(z, numEntriesRead, entryCursor) ==
    LET z1 == [z EXCEPT !.isMacArchive = TRUE, !.isMaybeMacArchive = FALSE]
        z2 == IF ~z1.centralDirectorySizeIsCertain
              THEN [z1 EXCEPT !.centralDirectorySize = z1.footerOffset - z1.centralDirectoryOffset,
                              !.centralDirectorySizeIsCertain = TRUE]
              ELSE z1
        z3 == IF ~z2.entryCountIsCertain
              THEN RecalculateEntryCountIsCertain(
                       RecalculateEntryCount(z2, numEntriesRead, entryCursor),
                       numEntriesRead, entryCursor)
              ELSE z2
    IN  [z3 EXCEPT !._uncertainUncompressedSizeEntryRefs = NULL_REFS]

\* A _setAsMacArchive that leaves the registered entries their _ref
\* (types.ts 1204-1210 left out).
SetAsMacArchiveEntries_KeepsRefs(z, es) == es

\* Zip._setAsMacArchive: the entries afterwards (every registered entry loses
\* its _ref; its uncompressedSizeIsCertain is left as it is).
SetAsMacArchiveEntries(z, es) ==
    [i \in DOMAIN es |->
        IF i \in z._uncertainUncompressedSizeEntryRefs
        THEN [es[i] EXCEPT !._ref = FALSE]
        ELSE es[i]]

\* A _setAsNotMacArchive that resets the certainty flags but leaves
\* isMaybeMacArchive as it is.
SetAsNotMacArchive_KeepsMaybe(z) ==
    [z EXCEPT !.entryCountIsCertain = TRUE,
              !.centralDirectorySizeIsCertain = TRUE,
              !.compressedSizesAreCertain = TRUE,
              !.uncompressedSizesAreCertain = TRUE,
              !._fileCursor = NULL,
              !._uncertainUncompressedSizeEntryRefs = NULL_REFS]

\* A _setAsNotMacArchive that leaves the uncompressed sizes uncertain
\* (types.ts 1225 left out).
SetAsNotMacArchive_SizesUnsettled(z) ==
    [z EXCEPT !.isMaybeMacArchive = FALSE,
              !.entryCountIsCertain = TRUE,
              !.centralDirectorySizeIsCertain = TRUE,
              !.compressedSizesAreCertain = TRUE,
              !._fileCursor = NULL,
              !._uncertainUncompressedSizeEntryRefs = NULL_REFS]

\* A _setAsNotMacArchive that leaves the file cursor where it was (without
\* types.ts 1226).
SetAsNotMacArchive_KeepsCursor(z) ==
    [z EXCEPT !.isMaybeMacArchive = FALSE,
              !.entryCountIsCertain = TRUE,
              !.centralDirectorySizeIsCertain = TRUE,
              !.compressedSizesAreCertain = TRUE,
              !.uncompressedSizesAreCertain = TRUE,
              !._uncertainUncompressedSizeEntryRefs = NULL_REFS]

\* Zip._setAsNotMacArchive: the Zip's fields afterwards.
SetAsNotMacArchive(z) ==
    [z EXCEPT !.isMaybeMacArchive = FALSE,
              !.entryCountIsCertain = TRUE,
              !.centralDirectorySizeIsCertain = TRUE,
              !.compressedSizesAreCertain = TRUE,
              !.uncompressedSizesAreCertain = TRUE,
              !._fileCursor = NULL,
              !._uncertainUncompressedSizeEntryRefs = NULL_REFS]

\* A _setAsNotMacArchive that does not walk the set of uncertain entries
\* (types.ts 1229-1239 left out).
SetAsNotMacArchiveEntries_LeavesUncertain(z, es) == es

\* Zip._setAsNotMacArchive: the entries afterwards.
SetAsNotMacArchiveEntries(z, es) ==
    [i \in DOMAIN es |->
        IF i \in z._uncertainUncompressedSizeEntryRefs
        THEN [es[i] EXCEPT !._ref = FALSE, !.uncompressedSizeIsCertain = TRUE]
        ELSE es[i]]

(***************************************************************************)
(* Zip: construction and init() (footer parsing and Central Directory      *)
(* location).  Each operator is the synchronous code between two reads.    *)
(***************************************************************************)

\* new Zip(reader, size, options)
NewZip(size, options) ==
    [ size |-> size,
      decodeStrings |-> options.decodeStrings,
      validateEntrySizes |-> options.validateEntrySizes,
      validateFilenames |-> options.validateFilenames,
      strictFilenames |-> options.strictFilenames,
      supportMacArchive |-> options.supportMacArchive,
      isZip64 |-> FALSE,
      entryCount |-> NULL,
      entryCountIsCertain |-> TRUE,
      footerOffset |-> NULL,
      centralDirectoryOffset |-> NULL,
      centralDirectorySize |-> NULL,
      centralDirectorySizeIsCertain |-> TRUE,
      commentLength |-> NULL,
      numEntriesRead |-> 0,
      isMacArchive |-> FALSE,
      isMaybeMacArchive |-> FALSE,
      compressedSizesAreCertain |-> TRUE,
      uncompressedSizesAreCertain |-> TRUE,
      _isReading |-> FALSE,
      _entryCursor |-> NULL,
      _fileCursor |-> NULL,
      _uncertainUncompressedSizeEntryRefs |-> NULL_REFS,
      _firstEntryProps |-> << >> ]

\* validateOptions(undefined): the defaults.
DefaultOptions ==
    [ decodeStrings |-> TRUE, validateEntrySizes |-> TRUE, validateFilenames |-> TRUE,
      strictFilenames |-> FALSE, supportMacArchive |-> TRUE ]

\* A scan that takes the last signature it meets, whatever the comment
\* length recorded after it (the test of types.ts 225 left out).
RECURSIVE ScanEocdr_AnySignature(_, _, _, _)
ScanEocdr_AnySignature(f, bufferOffset, bufferSize, position) ==
    IF position < 0 THEN << >>
    ELSE IF (bufferOffset + position) \in DOMAIN f.eocdr
    THEN << bufferOffset + position >>
    ELSE ScanEocdr_AnySignature(f, bufferOffset, bufferSize, position - 1)

\* The backward scan of Zip._locateEocdr over the buffer read from
\* bufferOffset: the first position, from `position` downwards, whose
\* signature and comment length fit.  <<>> when there is none.
RECURSIVE ScanEocdr(_, _, _, _)
ScanEocdr(f, bufferOffset, bufferSize, position) ==
    IF position < 0 THEN << >>
    ELSE IF (bufferOffset + position) \in DOMAIN f.eocdr
            /\ f.eocdr[bufferOffset + position].commentLength
                 = bufferSize - position - EOCDR_WITHOUT_COMMENT_SIZE
    THEN << bufferOffset + position >>
    ELSE ScanEocdr(f, bufferOffset, bufferSize, position - 1)

\* Zip._locateEocdr: the footer offset found, or the error.
LocateEocdr(f, size) ==
    LET full == EOCDR_WITHOUT_COMMENT_SIZE + MAX_EOCDR_COMMENT_SIZE
        bufferSize == IF size < full THEN size ELSE full
        bufferOffset == size - bufferSize
        found == ScanEocdr(f, bufferOffset, bufferSize, bufferSize - EOCDR_WITHOUT_COMMENT_SIZE)
    IN  IF size < EOCDR_WITHOUT_COMMENT_SIZE
        THEN Err("End of Central Directory Record not found")
        ELSE IF bufferOffset + bufferSize > f.size
        THEN Err("Unexpected end of file")
        ELSE IF found = << >>
        THEN Err("End of Central Directory Record not found")
        ELSE Ok(found[1])

\* Zip._parseEocdr on the record at footerOffset.
ParseEocdrFails(f, z) == f.eocdr[z.footerOffset].diskNumber # 0

ParseEocdr(f, z) ==
    LET r == f.eocdr[z.footerOffset]
    IN  [z EXCEPT !.entryCount = r.entryCount,
                  !.centralDirectorySize = r.centralDirectorySize,
                  !.centralDirectoryOffset = r.centralDirectoryOffset,
                  !.commentLength = r.commentLength,
                  !.isZip64 = (r.entryCount = U16_MAX
                               \/ r.centralDirectoryOffset = U32_MAX
                               \/ r.centralDirectorySize = U32_MAX)]

\* Zip._parseZip64Eocdr after the ZIP64 EOCDL read: [z, next, error, offset]
\* with next = "ok" (return OK), "fail", or "read" (read the ZIP64 EOCDR at
\* offset).
\* A _parseZip64Eocdr that rejects every archive without a ZIP64 EOCDL, Mac
\* support or not (types.ts 291-299 left out).
ParseZip64Eocdl_NoMacFallback(f, z) ==
    LET zip64EocdlOffset == z.footerOffset - ZIP64_EOCDL_SIZE
    IN  IF zip64EocdlOffset \notin DOMAIN f.z64l
        THEN [z |-> z, next |-> "fail",
              error |-> "Invalid ZIP64 End of Central Directory Locator signature", offset |-> 0]
        ELSE LET zip64EocdrOffset == f.z64l[zip64EocdlOffset].zip64EocdrOffset
             IN  IF zip64EocdrOffset + ZIP64_EOCDR_SIZE > zip64EocdlOffset
                 THEN [z |-> z, next |-> "fail",
                       error |-> "Cannot locate ZIP64 End of Central Directory Record", offset |-> 0]
                 ELSE [z |-> z, next |-> "read", error |-> "", offset |-> zip64EocdrOffset]

ParseZip64Eocdl(f, z) ==
    LET zip64EocdlOffset == z.footerOffset - ZIP64_EOCDL_SIZE
    IN  IF zip64EocdlOffset \notin DOMAIN f.z64l
        THEN IF z.supportMacArchive
             THEN [z |-> [z EXCEPT !.isMacArchive = TRUE], next |-> "ok", error |-> "", offset |-> 0]
             ELSE [z |-> z, next |-> "fail",
                   error |-> "Invalid ZIP64 End of Central Directory Locator signature", offset |-> 0]
        ELSE LET zip64EocdrOffset == f.z64l[zip64EocdlOffset].zip64EocdrOffset
             IN  IF zip64EocdrOffset + ZIP64_EOCDR_SIZE > zip64EocdlOffset
                 THEN [z |-> z, next |-> "fail",
                       error |-> "Cannot locate ZIP64 End of Central Directory Record", offset |-> 0]
                 ELSE [z |-> z, next |-> "read", error |-> "", offset |-> zip64EocdrOffset]

\* The footer offset Zip._parseZip64Eocdr records (types.ts line 360).
Zip64FooterOffset(zip64EocdrOffset, zip64EocdrSize, zip64EocdlOffset) ==
    IF zip64EocdrOffset + zip64EocdrSize = zip64EocdlOffset
    THEN zip64EocdrOffset ELSE zip64EocdlOffset

\* Zip._parseZip64Eocdr after the ZIP64 EOCDR read at zip64EocdrOffset.
ParseZip64EocdrRecord(f, z, zip64EocdrOffset) ==
    LET zip64EocdlOffset == z.footerOffset - ZIP64_EOCDL_SIZE
    IN  IF zip64EocdrOffset \notin DOMAIN f.z64r
        THEN [z |-> z, next |-> "fail",
              error |-> "Invalid ZIP64 End of Central Directory Record signature"]
        ELSE LET r == f.z64r[zip64EocdrOffset]
             IN  IF zip64EocdrOffset + r.zip64EocdrSize + ZIP64_EOCDR_PREFIX > zip64EocdlOffset
                 THEN [z |-> z, next |-> "fail",
                       error |-> "Invalid ZIP64 End of Central Directory Record"]
                 ELSE [z |-> [z EXCEPT
                          !.entryCount = IF @ = U16_MAX THEN r.entryCount ELSE @,
                          !.centralDirectorySize = IF @ = U32_MAX THEN r.centralDirectorySize ELSE @,
                          !.centralDirectoryOffset = IF @ = U32_MAX THEN r.centralDirectoryOffset ELSE @,
                          !.footerOffset = Zip64FooterOffset(zip64EocdrOffset, r.zip64EocdrSize,
                                                             zip64EocdlOffset)],
                       next |-> "ok", error |-> ""]

\* _locateCentralDirectory that skips ZIP64 archives only, Mac support
\* disabled or not.
LocateCentralDirectorySkipped_Zip64Only(z) == z.isZip64

\* types.ts 391-398: nothing to locate when Mac support is disabled, or in a
\* ZIP64 archive.
LocateCentralDirectorySkipped(z) == ~z.supportMacArchive \/ z.isZip64

\* Zip._locateCentralDirectory up to its first read (types.ts 390-445):
\* next = "ok" (return OK), "fail", "probe" (read the CDH at the stated
\* offset) or "search" (already known to be Mac: go to the search).
LocateCentralDirectoryPre(z) ==
    LET centralDirectoryEnd == z.centralDirectoryOffset + z.centralDirectorySize
        R(zz, next, error, cdEnd) ==
            [z |-> zz, next |-> next, error |-> error, centralDirectoryEnd |-> cdEnd]
    IN  IF LocateCentralDirectorySkipped(z) THEN R(z, "ok", "", centralDirectoryEnd)
        ELSE IF z.size - z.footerOffset # EOCDR_WITHOUT_COMMENT_SIZE
        THEN R(z, "ok", "", centralDirectoryEnd)
        ELSE IF centralDirectoryEnd % FOUR_GIB # z.footerOffset % FOUR_GIB
        THEN R(z, "ok", "", centralDirectoryEnd)
        ELSE IF z.entryCount = 0 /\ z.centralDirectoryOffset + CDH_MIN_LENGTH > z.footerOffset
        THEN IF z.centralDirectorySize # 0
             THEN R(z, "fail", "Inconsistent Central Directory size and entry count",
                    centralDirectoryEnd)
             ELSE R(z, "ok", "", centralDirectoryEnd)
        ELSE IF z.centralDirectorySize < z.entryCount * CDH_MIN_LENGTH
                /\ centralDirectoryEnd >= z.footerOffset
        THEN R(z, "fail", "Inconsistent Central Directory size and entry count",
               centralDirectoryEnd)
        ELSE
          LET grow == z.centralDirectorySize < z.entryCount * CDH_MIN_LENGTH
              z1 == IF grow
                    THEN [z EXCEPT !.isMacArchive = TRUE,
                                   !.centralDirectorySize = z.footerOffset - z.centralDirectoryOffset]
                    ELSE z
              cdEnd1 == IF grow THEN z.footerOffset ELSE centralDirectoryEnd
              tooLow == RecalculateEntryCountTooLow(z1, 0, z1.centralDirectoryOffset)
              z2 == RecalculateEntryCount(z1, 0, z1.centralDirectoryOffset)
              z3 == IF tooLow THEN [z2 EXCEPT !.isMacArchive = TRUE] ELSE z2
          IN  R(z3, IF z3.isMacArchive THEN "search" ELSE "probe", "", cdEnd1)

\* A probe that does not keep the entry it found for the first readEntry()
\* (types.ts 456 left out).
LocateCentralDirectoryProbe_NoCache(z, res) ==
    IF res.fails
    THEN [z |-> z, next |-> "fail", error |-> res.error, entry |-> << >>]
    ELSE IF res.value # << >> /\ ~FirstEntryMaybeMac(res.value[1])
    THEN IF z.entryCount <= 0
         THEN [z |-> z, next |-> "fail",
               error |-> "Inconsistent Central Directory size and entry count", entry |-> << >>]
         ELSE [z |-> z, next |-> "ok", error |-> "", entry |-> res.value]
    ELSE [z |-> z, next |-> "search", error |-> "", entry |-> res.value]

\* types.ts 446-465: after the probe of the stated offset returned `res`.
\* next = "ok", "fail" or "search"; entry is <<>> or <<properties>>.
LocateCentralDirectoryProbe(z, res) ==
    IF res.fails
    THEN [z |-> z, next |-> "fail", error |-> res.error, entry |-> << >>]
    ELSE IF res.value # << >> /\ ~FirstEntryMaybeMac(res.value[1])
    THEN IF z.entryCount <= 0
         THEN [z |-> z, next |-> "fail",
               error |-> "Inconsistent Central Directory size and entry count", entry |-> << >>]
         ELSE [z |-> [z EXCEPT !._firstEntryProps = res.value], next |-> "ok",
               error |-> "", entry |-> res.value]
    ELSE [z |-> z, next |-> "search", error |-> "", entry |-> res.value]

\* types.ts 479-489: the first offset the search tries; NULL when the code
\* returns 'Inconsistent Central Directory size and entry count' instead.
SearchStartOffset(z) ==
    LET offset0 == z.footerOffset - Max(z.centralDirectorySize, z.entryCount * CDH_MIN_LENGTH)
        under == JsMod(offset0, FOUR_GIB) < z.centralDirectoryOffset
        offset1 == IF under THEN offset0 - FOUR_GIB ELSE offset0
    IN  IF under /\ offset0 < FOUR_GIB THEN NULL
        ELSE (FloorDiv(offset1, FOUR_GIB) * FOUR_GIB) + z.centralDirectoryOffset

\* types.ts 493-511: one turn of the search loop, after the read at `offset`
\* returned `res`.  next = "fail", "found" or "again" (with offset lowered).
LocateCentralDirectorySearch(z, res, offset) ==
    IF res.fails
    THEN [z |-> z, next |-> "fail", error |-> res.error, entry |-> << >>, offset |-> offset]
    ELSE IF res.value # << >>
    THEN IF ~FirstEntryMaybeMac(res.value[1])
         THEN [z |-> z, next |-> "fail", error |-> "Cannot locate Central Directory",
               entry |-> << >>, offset |-> offset]
         ELSE [z |-> [z EXCEPT !.isMacArchive = TRUE, !.centralDirectoryOffset = offset],
               next |-> "found", error |-> "", entry |-> res.value, offset |-> offset]
    ELSE [z |-> z, next |-> "again", error |-> "", entry |-> << >>,
          offset |-> offset - FOUR_GIB]

\* LocateCentralDirectoryFinal with the compressed sizes doubted in the
\* maybe-Mac branch as well.
LocateCentralDirectoryFinal_MaybeMacUncertain(z, entry, centralDirectoryEnd0) ==
    IF entry = << >>
    THEN IF z.entryCount # 0 \/ z.centralDirectorySize # 0
         THEN [z |-> z, fails |-> TRUE, error |-> "Cannot locate Central Directory"]
         ELSE [z |-> z, fails |-> FALSE, error |-> ""]
    ELSE
      LET e == entry[1]
          z1 == IF z.entryCount = 0 THEN [z EXCEPT !.isMacArchive = TRUE] ELSE z
          cdEnd == IF z1.isMacArchive THEN z1.footerOffset ELSE centralDirectoryEnd0
          m1 == [z1 EXCEPT !.centralDirectorySize = z1.footerOffset - z1.centralDirectoryOffset]
          m2 == RecalculateEntryCount(m1, 1, e.entryEnd)
          minTotalDataSize == (m2.entryCount * (LFH_LENGTH + DATA_DESCRIPTOR_LENGTH))
                              + e.compressedSize + Len(e.filename)
                              + (Len(e.extraFields) * MAC_LFH_EXTRA_FIELDS_LENGTH)
          m3 == IF minTotalDataSize + FOUR_GIB <= m2.centralDirectoryOffset
                THEN [m2 EXCEPT !.compressedSizesAreCertain = FALSE] ELSE m2
          y1 == [z1 EXCEPT !.isMaybeMacArchive = TRUE, !.compressedSizesAreCertain = FALSE]
          y2 == IF centralDirectoryEnd0 < y1.footerOffset
                THEN [y1 EXCEPT !.centralDirectorySizeIsCertain = FALSE,
                                !.entryCountIsCertain = FALSE]
                ELSE RecalculateEntryCount(y1, 1, e.entryEnd)
          y3 == [y2 EXCEPT !._uncertainUncompressedSizeEntryRefs = {}]
          z2 == IF z1.isMacArchive THEN m3 ELSE y3
          z3 == IF z2.entryCountIsCertain
                   /\ ~EntryCountIsCertainFn(z2.entryCount - 1, cdEnd - e.entryEnd)
                THEN [z2 EXCEPT !.entryCountIsCertain = FALSE] ELSE z2
      IN  IF z1.isMacArchive /\ m1.centralDirectorySize <= 0
          THEN [z |-> m1, fails |-> TRUE,
                error |-> "Inconsistent Central Directory size and entry count"]
          ELSE [z |-> [z3 EXCEPT !.uncompressedSizesAreCertain = FALSE,
                                 !._fileCursor = 0,
                                 !._firstEntryProps = entry],
                fails |-> FALSE, error |-> ""]

\* types.ts 514-592: the end of _locateCentralDirectory, with the entry found
\* (<<>> when none) and the local centralDirectoryEnd.
LocateCentralDirectoryFinal(z, entry, centralDirectoryEnd0) ==
    IF entry = << >>
    THEN IF z.entryCount # 0 \/ z.centralDirectorySize # 0
         THEN [z |-> z, fails |-> TRUE, error |-> "Cannot locate Central Directory"]
         ELSE [z |-> z, fails |-> FALSE, error |-> ""]
    ELSE
      LET e == entry[1]
          z1 == IF z.entryCount = 0 THEN [z EXCEPT !.isMacArchive = TRUE] ELSE z
          cdEnd == IF z1.isMacArchive THEN z1.footerOffset ELSE centralDirectoryEnd0
          \* the isMacArchive branch
          m1 == [z1 EXCEPT !.centralDirectorySize = z1.footerOffset - z1.centralDirectoryOffset]
          m2 == RecalculateEntryCount(m1, 1, e.entryEnd)
          minTotalDataSize == (m2.entryCount * (LFH_LENGTH + DATA_DESCRIPTOR_LENGTH))
                              + e.compressedSize + Len(e.filename)
                              + (Len(e.extraFields) * MAC_LFH_EXTRA_FIELDS_LENGTH)
          m3 == IF minTotalDataSize + FOUR_GIB <= m2.centralDirectoryOffset
                THEN [m2 EXCEPT !.compressedSizesAreCertain = FALSE] ELSE m2
          \* the maybe-Mac branch
          y1 == [z1 EXCEPT !.isMaybeMacArchive = TRUE]
          y2 == IF centralDirectoryEnd0 < y1.footerOffset
                THEN [y1 EXCEPT !.centralDirectorySizeIsCertain = FALSE,
                                !.entryCountIsCertain = FALSE]
                ELSE RecalculateEntryCount(y1, 1, e.entryEnd)
          y3 == [y2 EXCEPT !._uncertainUncompressedSizeEntryRefs = {}]
          z2 == IF z1.isMacArchive THEN m3 ELSE y3
          z3 == IF z2.entryCountIsCertain
                   /\ ~EntryCountIsCertainFn(z2.entryCount - 1, cdEnd - e.entryEnd)
                THEN [z2 EXCEPT !.entryCountIsCertain = FALSE] ELSE z2
      IN  IF z1.isMacArchive /\ m1.centralDirectorySize <= 0
          THEN [z |-> m1, fails |-> TRUE,
                error |-> "Inconsistent Central Directory size and entry count"]
          ELSE [z |-> [z3 EXCEPT !.uncompressedSizesAreCertain = FALSE,
                                 !._fileCursor = 0,
                                 !._firstEntryProps = entry],
                fails |-> FALSE, error |-> ""]

(***************************************************************************)
(* Zip._readEntry, cut at its reads.  z is the Zip, es the entries handed   *)
(* out so far (Entry objects are named by their index in es).              *)
(***************************************************************************)

\* types.ts 617: iteration is over.
ReadEntryExhausted(z) == z.numEntriesRead = z.entryCount /\ z.entryCountIsCertain

\* A _readEntry that, in a Mac archive, leaves the entry's header offset as
\* the Central Directory states it (without types.ts 672).
ReadEntryAfterRead_MacTruncated(z, es, res) ==
    LET R(zz, ees, next, result, props) ==
            [z |-> zz, es |-> ees, next |-> next, result |-> result, props |-> props]
        centralDirectoryEnd == z.centralDirectoryOffset + z.centralDirectorySize
    IN
    IF res.fails THEN R(z, es, "ret", res, << >>)
    ELSE IF res.value = << >>
    THEN IF z.isMacArchive \/ z.numEntriesRead # z.entryCount
            \/ z._entryCursor # centralDirectoryEnd
         THEN R(z, es, "ret", Err("Invalid Central Directory File Header signature"), << >>)
         ELSE IF z.isMaybeMacArchive
         THEN R(SetAsNotMacArchive(z), SetAsNotMacArchiveEntries(z, es), "ret", OK_NULL, << >>)
         ELSE R(z, es, "ret", OK_NULL, << >>)
    ELSE
      LET p == res.value[1]
          entryEnd == p.entryEnd
          n1 == z.numEntriesRead + 1
          macOk == EntryMaybeMac(p)
                   /\ p.fileHeaderOffset = Num(z._fileCursor) % FOUR_GIB
      IN
      IF z.isMacArchive
      THEN IF ~macOk
           THEN R(z, es, "ret", Err("Inconsistent Central Directory structure"), << >>)
           ELSE LET p1 == p
                    z1 == IF ~z.entryCountIsCertain
                          THEN RecalculateEntryCountIsCertain(
                                   RecalculateEntryCount(z, n1, entryEnd), n1, entryEnd)
                          ELSE z
                IN  R(z1, es, "cont", OK_NULL, << p1 >>)
      ELSE IF z.isMaybeMacArchive
      THEN IF Num(z._fileCursor) >= FOUR_GIB
           THEN IF ~macOk
                THEN R(z, es, "ret", Err("Inconsistent Central Directory structure"), << >>)
                ELSE R(SetAsMacArchive(z, n1, entryEnd), SetAsMacArchiveEntries(z, es),
                       "cont", OK_NULL, << p >>)
           ELSE IF ~EntryMaybeMac(p) \/ p.fileHeaderOffset # z._fileCursor
           THEN IF z.numEntriesRead = z.entryCount
                THEN R(SetAsNotMacArchive(z), SetAsNotMacArchiveEntries(z, es), "ret",
                       Err("Central Directory contains too many entries"), << >>)
                ELSE R(SetAsNotMacArchive(z), SetAsNotMacArchiveEntries(z, es),
                       "cont", OK_NULL, << p >>)
           ELSE IF ~z.centralDirectorySizeIsCertain
                   /\ entryEnd + ((z.entryCount - z.numEntriesRead - 1) * CDH_MIN_LENGTH)
                        > centralDirectoryEnd
           THEN R(SetAsMacArchive(z, n1, entryEnd), SetAsMacArchiveEntries(z, es),
                  "cont", OK_NULL, << p >>)
           ELSE IF ~z.entryCountIsCertain
           THEN IF RecalculateEntryCountTooLow(z, n1, entryEnd)
                THEN LET zr == RecalculateEntryCount(z, n1, entryEnd)
                     IN  R(SetAsMacArchive(zr, n1, entryEnd), SetAsMacArchiveEntries(zr, es),
                           "cont", OK_NULL, << p >>)
                ELSE IF z.centralDirectorySizeIsCertain
                THEN R(RecalculateEntryCountIsCertain(z, n1, entryEnd), es,
                       "cont", OK_NULL, << p >>)
                ELSE R(z, es, "cont", OK_NULL, << p >>)
           ELSE R(z, es, "cont", OK_NULL, << p >>)
      ELSE R(z, es, "cont", OK_NULL, << p >>)

\* types.ts 630-722: after _readEntryAt(_entryCursor) returned `res`.
\* next = "ret" (return `result`) or "cont" (go on with `props`).
ReadEntryAfterRead(z, es, res) ==
    LET R(zz, ees, next, result, props) ==
            [z |-> zz, es |-> ees, next |-> next, result |-> result, props |-> props]
        centralDirectoryEnd == z.centralDirectoryOffset + z.centralDirectorySize
    IN
    IF res.fails THEN R(z, es, "ret", res, << >>)
    ELSE IF res.value = << >>
    THEN IF z.isMacArchive \/ z.numEntriesRead # z.entryCount
            \/ z._entryCursor # centralDirectoryEnd
         THEN R(z, es, "ret", Err("Invalid Central Directory File Header signature"), << >>)
         ELSE IF z.isMaybeMacArchive
         THEN R(SetAsNotMacArchive(z), SetAsNotMacArchiveEntries(z, es), "ret", OK_NULL, << >>)
         ELSE R(z, es, "ret", OK_NULL, << >>)
    ELSE
      LET p == res.value[1]
          entryEnd == p.entryEnd
          n1 == z.numEntriesRead + 1
          macOk == EntryMaybeMac(p)
                   /\ p.fileHeaderOffset = Num(z._fileCursor) % FOUR_GIB
      IN
      IF z.isMacArchive
      THEN IF ~macOk
           THEN R(z, es, "ret", Err("Inconsistent Central Directory structure"), << >>)
           ELSE LET p1 == [p EXCEPT !.fileHeaderOffset = z._fileCursor]
                    z1 == IF ~z.entryCountIsCertain
                          THEN RecalculateEntryCountIsCertain(
                                   RecalculateEntryCount(z, n1, entryEnd), n1, entryEnd)
                          ELSE z
                IN  R(z1, es, "cont", OK_NULL, << p1 >>)
      ELSE IF z.isMaybeMacArchive
      THEN IF Num(z._fileCursor) >= FOUR_GIB
           THEN IF ~macOk
                THEN R(z, es, "ret", Err("Inconsistent Central Directory structure"), << >>)
                ELSE R(SetAsMacArchive(z, n1, entryEnd), SetAsMacArchiveEntries(z, es),
                       "cont", OK_NULL, << p >>)
           ELSE IF ~EntryMaybeMac(p) \/ p.fileHeaderOffset # z._fileCursor
           THEN IF z.numEntriesRead = z.entryCount
                THEN R(SetAsNotMacArchive(z), SetAsNotMacArchiveEntries(z, es), "ret",
                       Err("Central Directory contains too many entries"), << >>)
                ELSE R(SetAsNotMacArchive(z), SetAsNotMacArchiveEntries(z, es),
                       "cont", OK_NULL, << p >>)
           ELSE IF ~z.centralDirectorySizeIsCertain
                   /\ entryEnd + ((z.entryCount - z.numEntriesRead - 1) * CDH_MIN_LENGTH)
                        > centralDirectoryEnd
           THEN R(SetAsMacArchive(z, n1, entryEnd), SetAsMacArchiveEntries(z, es),
                  "cont", OK_NULL, << p >>)
           ELSE IF ~z.entryCountIsCertain
           THEN IF RecalculateEntryCountTooLow(z, n1, entryEnd)
                THEN LET zr == RecalculateEntryCount(z, n1, entryEnd)
                     IN  R(SetAsMacArchive(zr, n1, entryEnd), SetAsMacArchiveEntries(zr, es),
                           "cont", OK_NULL, << p >>)
                ELSE IF z.centralDirectorySizeIsCertain
                THEN R(RecalculateEntryCountIsCertain(z, n1, entryEnd), es,
                       "cont", OK_NULL, << p >>)
                ELSE R(z, es, "cont", OK_NULL, << p >>)
           ELSE R(z, es, "cont", OK_NULL, << p >>)
      ELSE R(z, es, "cont", OK_NULL, << p >>)

\* types.ts 728-731
FileDataOffsetIfMac(p) ==
    Num(p.fileHeaderOffset) + LFH_LENGTH + Len(p.filename)
    + (Len(p.extraFields) * MAC_LFH_EXTRA_FIELDS_LENGTH)

\* Zip._determineCompressedSize up to its first read (types.ts 849-889):
\* next = "ret" (return `result`, with `props` updated) or "read" (search the
\* Data Descriptor from fileDataEnd).
DetermineCompressedSizePre(z, p, fileDataOffsetIfMac) ==
    LET numEntriesRemaining == z.entryCount - z.numEntriesRead - 1
        dataSpaceRemaining == z.centralDirectoryOffset - fileDataOffsetIfMac
                              - p.compressedSize
                              - (IF p.compressionMethod = 8 THEN DATA_DESCRIPTOR_LENGTH ELSE 0)
        R(next, result, props, fileDataEnd) ==
            [next |-> next, result |-> result, props |-> props, fileDataEnd |-> fileDataEnd]
    IN  IF dataSpaceRemaining - (numEntriesRemaining * LFH_LENGTH) < FOUR_GIB
        THEN R("ret", OK_TRUE, p, 0)
        ELSE IF z.isMacArchive /\ numEntriesRemaining = 0
        THEN IF dataSpaceRemaining % FOUR_GIB # 0
             THEN R("ret", Err("Invalid ZIP structure for Mac OS Archive Utility ZIP"), p, 0)
             ELSE R("ret", OK_TRUE,
                    [p EXCEPT !.compressedSize = @ + dataSpaceRemaining], 0)
        ELSE IF p.compressionMethod = 0
        THEN R("ret", OK_FALSE, p, 0)
        ELSE R("read", OK_NULL, p, fileDataOffsetIfMac + p.compressedSize)

\* types.ts 900-909: the 20 bytes read at fileDataEnd are this entry's Data
\* Descriptor, followed by a Local File Header or by the Central Directory.
DataDescriptorAt(f, z, p, fileDataEnd) ==
    /\ fileDataEnd \in DOMAIN f.dd
    /\ f.dd[fileDataEnd].crc32 = p.crc32
    /\ f.dd[fileDataEnd].compressedSize = p.compressedSize
    /\ f.dd[fileDataEnd].uncompressedSize = p.uncompressedSize
    /\ ( (fileDataEnd + DATA_DESCRIPTOR_LENGTH) \in DOMAIN f.lfh
         \/ fileDataEnd + DATA_DESCRIPTOR_LENGTH = z.centralDirectoryOffset )

\* types.ts 893-927: one turn of the search loop after the read at
\* fileDataEnd completed.  next = "fail" (the read failed), "found",
\* "absent" (fileDataEnd = null) or "again" (read at the new fileDataEnd).
DetermineCompressedSizeLoop(f, z, p, fileDataEnd) ==
    IF fileDataEnd + DATA_DESCRIPTOR_READ > f.size
    THEN [next |-> "fail", fileDataEnd |-> fileDataEnd]
    ELSE IF DataDescriptorAt(f, z, p, fileDataEnd)
    THEN [next |-> "found", fileDataEnd |-> fileDataEnd]
    ELSE IF z.compressedSizesAreCertain
    THEN [next |-> "absent", fileDataEnd |-> fileDataEnd]
    ELSE IF fileDataEnd + FOUR_GIB + DATA_DESCRIPTOR_LENGTH > z.centralDirectoryOffset
    THEN [next |-> "absent", fileDataEnd |-> fileDataEnd + FOUR_GIB]
    ELSE [next |-> "again", fileDataEnd |-> fileDataEnd + FOUR_GIB]

\* types.ts 929-974: the end of _determineCompressedSize; found tells whether
\* the Data Descriptor was found at fileDataEnd.
DetermineCompressedSizePost(z, es, p, fileDataOffsetIfMac, found, fileDataEnd) ==
    LET R(zz, ees, result, props) == [z |-> zz, es |-> ees, result |-> result, props |-> props]
    IN
    IF ~found
    THEN IF z.isMacArchive
         THEN R(z, es, Err("Cannot locate file Data Descriptor"), p)
         ELSE IF z.isMaybeMacArchive
         THEN R(SetAsNotMacArchive(z), SetAsNotMacArchiveEntries(z, es), OK_TRUE, p)
         ELSE R(z, es, OK_TRUE, p)
    ELSE IF fileDataEnd = fileDataOffsetIfMac + p.compressedSize
    THEN R(z, es, OK_FALSE, p)
    ELSE IF ~z.isMacArchive /\ ~z.isMaybeMacArchive
    THEN R(z, es, Err("Cannot locate file Data Descriptor"), p)
    ELSE
      LET z1 == IF ~z.isMacArchive
                THEN SetAsMacArchive(z, z.numEntriesRead + 1, p.entryEnd) ELSE z
          es1 == IF ~z.isMacArchive THEN SetAsMacArchiveEntries(z, es) ELSE es
          p1 == [p EXCEPT !.compressedSize = fileDataEnd - fileDataOffsetIfMac]
          numEntriesRemaining == z1.entryCount - z1.numEntriesRead - 1
          dataSpaceRemaining == z1.centralDirectoryOffset - fileDataEnd - DATA_DESCRIPTOR_LENGTH
      IN  R(z1, es1,
            Ok(dataSpaceRemaining - (numEntriesRemaining * LFH_LENGTH) < FOUR_GIB), p1)

\* types.ts 737-743: _readEntry takes the resolver's answer.
ReadEntryAfterDetermine(z, isNowCertain) ==
    IF ~isNowCertain.fails /\ isNowCertain.value[1]
    THEN [z EXCEPT !.compressedSizesAreCertain = TRUE] ELSE z

\* types.ts 747-772: the uncompressed size of the entry being read.
ReadEntryUncompressedSize(z, p) ==
    IF z.uncompressedSizesAreCertain THEN p
    ELSE IF p.compressionMethod = 0
    THEN [p EXCEPT !.uncompressedSize = p.compressedSize]
    ELSE IF p.compressionMethod = 8
    THEN LET maxUncompressedSize == p.compressedSize * DEFLATE_MAX_RATIO
         IN  IF maxUncompressedSize > FOUR_GIB * 2
                \/ ( maxUncompressedSize > FOUR_GIB
                     /\ maxUncompressedSize % FOUR_GIB > p.uncompressedSize )
             THEN [p EXCEPT !.uncompressedSizeIsCertain = FALSE]
             ELSE p
    ELSE [p EXCEPT !.uncompressedSizeIsCertain = FALSE]

\* validateFilename(filename) of src/src/reader.ts 727-741, on a filename
\* given as a sequence of characters: "" when valid, else the error's kind.
RECURSIVE SplitOnSlash(_, _)
SplitOnSlash(fn, cur) ==
    IF fn = << >> THEN << cur >>
    ELSE IF Head(fn) = "/" THEN << cur >> \o SplitOnSlash(Tail(fn), << >>)
    ELSE SplitOnSlash(Tail(fn), Append(cur, Head(fn)))

Letters == {"a", "b", "C"}

ValidateFilename(filename) ==
    IF \E i \in 1 .. Len(filename) : filename[i] = "\\"
    THEN "Invalid characters in filename"
    ELSE IF (Len(filename) >= 2 /\ filename[1] \in Letters /\ filename[2] = ":")
            \/ (Len(filename) >= 1 /\ filename[1] = "/")
    THEN "Absolute path"
    ELSE IF \E i \in 1 .. Len(SplitOnSlash(filename, << >>)) :
                SplitOnSlash(filename, << >>)[i] = << ".", "." >>
    THEN "Relative path"
    ELSE ""

\* filename.replaceAll('\\', '/')
ReplaceBackslashes(filename) ==
    [i \in 1 .. Len(filename) |-> IF filename[i] = "\\" THEN "/" ELSE filename[i]]

\* Zip._validateAndDecodeEntry: the Entry built from the properties, or the
\* error.  The Entry has no entryEnd and starts with _ref = null.
ValidateAndDecodeEntry(z, p) ==
    LET filename1 == IF z.decodeStrings /\ z.validateFilenames /\ ~z.strictFilenames
                     THEN ReplaceBackslashes(p.filename) ELSE p.filename
        nameError == IF z.decodeStrings /\ z.validateFilenames
                     THEN ValidateFilename(filename1) ELSE ""
        expectedCompressedSize ==
            IF BitAnd(p.generalPurposeBitFlag, 1) # 0
            THEN p.uncompressedSize + 12 ELSE p.uncompressedSize
    IN  IF nameError # "" THEN Err(nameError)
        ELSE IF z.validateEntrySizes /\ p.compressionMethod = 0
                /\ p.compressedSize # expectedCompressedSize
        THEN Err("Compressed/uncompressed size mismatch for stored file")
        ELSE Ok([ filename |-> filename1,
                  compressedSize |-> p.compressedSize,
                  uncompressedSize |-> p.uncompressedSize,
                  uncompressedSizeIsCertain |-> p.uncompressedSizeIsCertain,
                  compressionMethod |-> p.compressionMethod,
                  fileHeaderOffset |-> p.fileHeaderOffset,
                  fileDataOffset |-> p.fileDataOffset,
                  isZip64 |-> p.isZip64,
                  crc32 |-> p.crc32,
                  commentLength |-> p.commentLength,
                  extraFields |-> p.extraFields,
                  versionMadeBy |-> p.versionMadeBy,
                  versionNeededToExtract |-> p.versionNeededToExtract,
                  generalPurposeBitFlag |-> p.generalPurposeBitFlag,
                  filenameLength |-> p.filenameLength,
                  _ref |-> FALSE ])

\* A _readEntry that moves the entry cursor and counts the entry before it
\* validates the entry (types.ts 781-782 ahead of 774-777).
ReadEntryFinish_AdvancesFirst(z, es, p0, fileDataOffsetIfMac) ==
    LET p == ReadEntryUncompressedSize(z, p0)
        entryResult == ValidateAndDecodeEntry(z, p)
        R(zz, ees, result) == [z |-> zz, es |-> ees, result |-> result]
    IN
    IF entryResult.fails
    THEN R([z EXCEPT !._entryCursor = p.entryEnd, !.numEntriesRead = @ + 1], es,
           Err(entryResult.error))
    ELSE
      LET entry == entryResult.value[1]
          idx == Len(es) + 1
          z1 == [z EXCEPT !._entryCursor = p.entryEnd, !.numEntriesRead = @ + 1]
          dataDescriptorLength ==
              IF p.compressionMethod = 8 THEN DATA_DESCRIPTOR_LENGTH ELSE 0
          z2 == IF z1.isMacArchive \/ z1.isMaybeMacArchive
                THEN [z1 EXCEPT !._fileCursor =
                          fileDataOffsetIfMac + entry.compressedSize + dataDescriptorLength]
                ELSE z1
          register == ~z2.isMacArchive /\ z2.isMaybeMacArchive
                      /\ ~entry.uncompressedSizeIsCertain
      IN  IF z2.isMacArchive
          THEN R(z2, Append(es, [entry EXCEPT !.fileDataOffset = fileDataOffsetIfMac]),
                 Ok(idx))
          ELSE IF register /\ z2._uncertainUncompressedSizeEntryRefs = NULL_REFS
          THEN R(z2, es, Err("Logic failure. Please raise an issue."))
          ELSE IF register
          THEN R([z2 EXCEPT !._uncertainUncompressedSizeEntryRefs = @ \cup {idx}],
                 Append(es, [entry EXCEPT !._ref = TRUE]), Ok(idx))
          ELSE R(z2, Append(es, entry), Ok(idx))

\* A _readEntry that counts the entry but leaves the entry cursor where it
\* was (types.ts 781 left out).
ReadEntryFinish_KeepsCursor(z, es, p0, fileDataOffsetIfMac) ==
    LET p == ReadEntryUncompressedSize(z, p0)
        entryResult == ValidateAndDecodeEntry(z, p)
        R(zz, ees, result) == [z |-> zz, es |-> ees, result |-> result]
    IN
    IF entryResult.fails THEN R(z, es, Err(entryResult.error))
    ELSE
      LET entry == entryResult.value[1]
          idx == Len(es) + 1
          z1 == [z EXCEPT !.numEntriesRead = @ + 1]
          dataDescriptorLength ==
              IF p.compressionMethod = 8 THEN DATA_DESCRIPTOR_LENGTH ELSE 0
          z2 == IF z1.isMacArchive \/ z1.isMaybeMacArchive
                THEN [z1 EXCEPT !._fileCursor =
                          fileDataOffsetIfMac + entry.compressedSize + dataDescriptorLength]
                ELSE z1
          register == ~z2.isMacArchive /\ z2.isMaybeMacArchive
                      /\ ~entry.uncompressedSizeIsCertain
      IN  IF z2.isMacArchive
          THEN R(z2, Append(es, [entry EXCEPT !.fileDataOffset = fileDataOffsetIfMac]),
                 Ok(idx))
          ELSE IF register /\ z2._uncertainUncompressedSizeEntryRefs = NULL_REFS
          THEN R(z2, es, Err("Logic failure. Please raise an issue."))
          ELSE IF register
          THEN R([z2 EXCEPT !._uncertainUncompressedSizeEntryRefs = @ \cup {idx}],
                 Append(es, [entry EXCEPT !._ref = TRUE]), Ok(idx))
          ELSE R(z2, Append(es, entry), Ok(idx))

\* types.ts 746-814: the end of _readEntry for properties p0 whose CDH ends
\* at entryEnd.  [z, es, result]; es gains the Entry when one is returned,
\* and result.value is then <<its index>>.
ReadEntryFinish(z, es, p0, fileDataOffsetIfMac) ==
    LET p == ReadEntryUncompressedSize(z, p0)
        entryResult == ValidateAndDecodeEntry(z, p)
        R(zz, ees, result) == [z |-> zz, es |-> ees, result |-> result]
    IN
    IF entryResult.fails THEN R(z, es, Err(entryResult.error))
    ELSE
      LET entry == entryResult.value[1]
          idx == Len(es) + 1
          z1 == [z EXCEPT !._entryCursor = p.entryEnd, !.numEntriesRead = @ + 1]
          dataDescriptorLength ==
              IF p.compressionMethod = 8 THEN DATA_DESCRIPTOR_LENGTH ELSE 0
          z2 == IF z1.isMacArchive \/ z1.isMaybeMacArchive
                THEN [z1 EXCEPT !._fileCursor =
                          fileDataOffsetIfMac + entry.compressedSize + dataDescriptorLength]
                ELSE z1
          register == ~z2.isMacArchive /\ z2.isMaybeMacArchive
                      /\ ~entry.uncompressedSizeIsCertain
      IN  IF z2.isMacArchive
          THEN R(z2, Append(es, [entry EXCEPT !.fileDataOffset = fileDataOffsetIfMac]),
                 Ok(idx))
          ELSE IF register /\ z2._uncertainUncompressedSizeEntryRefs = NULL_REFS
          THEN R(z2, es, Err("Logic failure. Please raise an issue."))
          ELSE IF register
          THEN R([z2 EXCEPT !._uncertainUncompressedSizeEntryRefs = @ \cup {idx}],
                 Append(es, [entry EXCEPT !._ref = TRUE]), Ok(idx))
          ELSE R(z2, Append(es, entry), Ok(idx))

(***************************************************************************)
(* Reader (src/src/reader.ts): the base class's bookkeeping and the reads   *)
(* of FileReader, the Reader of open(path).  fd tells whether the file descriptor is held; position is the    *)
(* descriptor's own file position, which fs.read uses (and advances) when   *)
(* it is handed the position null.                                          *)
(***************************************************************************)

\* A Reader after open() by one of the factories.  openCalls and closeCalls
\* count the calls of the subclass hooks _open() and _close().
OpenedReader ==
    [ _isOpen |-> TRUE, _readCount |-> 0, fd |-> TRUE, position |-> 0,
      openCalls |-> 1, closeCalls |-> 0 ]

\* An open() that calls _open() whether the reader is open or not.
ReaderOpen_Always(r) ==
    [r EXCEPT !._isOpen = TRUE, !.openCalls = @ + 1, !.fd = TRUE]

\* Reader.open (reader.ts 34-42) with FileReader._open (reader.ts 275-284):
\* nothing on an open reader; else the reader is open and has a descriptor.
ReaderOpen(r) ==
    IF r._isOpen THEN r
    ELSE [r EXCEPT !._isOpen = TRUE, !.openCalls = @ + 1, !.fd = TRUE]

\* Reader.read / Reader.createReadStream: the counter around a pending read
\* or an outstanding stream.
ReaderCountUp(r) == [r EXCEPT !._readCount = @ + 1]
ReaderCountDown(r) == [r EXCEPT !._readCount = @ - 1]

\* A raw stream closing the file descriptor when it ends or is destroyed,
\* as node's fs does for a stream it is given a descriptor for.
ShimmedClose_ClosesFd(r) == [r EXCEPT !.fd = FALSE]

\* SHIMMED_FS.close, the close() the raw streams of an FdReader are given
\* (reader.ts 244-259): it calls back and leaves the descriptor open.
ShimmedClose(r) == r

\* A close() that closes without looking at the counter again.
ReaderCloseFinish_NoSecondLook(r) ==
    [r EXCEPT !._isOpen = FALSE, !.closeCalls = @ + 1, !.fd = FALSE]

\* Reader.close, second half (reader.ts 61-67): the outcome once the counter
\* has been looked at again.
ReaderCloseFinish(r) ==
    IF r._readCount # 0 THEN r
    ELSE [r EXCEPT !._isOpen = FALSE, !.closeCalls = @ + 1, !.fd = FALSE]

\* A close() that returns what _close would, reads in progress or not.
ReaderCloseResult_NoSecondLook(r) ==
    IF ~r.fd THEN Err("File descriptor not open") ELSE OK_NULL

\* What close() returns: its own error, or what FileReader._close returns.
ReaderCloseResult(r) ==
    IF r._readCount # 0 THEN Err("Cannot close while reading in progress")
    ELSE IF ~r.fd THEN Err("File descriptor not open")
    ELSE OK_NULL

\* An onEnd that decrements at every event of the raw stream.
OnEnd_EveryEvent(h) == [isEnded |-> TRUE, r |-> ReaderCountDown(h.r)]

\* onEnd (reader.ts 127-137), the handler of the raw stream's 'end', 'error'
\* and 'close' events: it decrements the counter at the first of them.
OnEnd(h) ==
    IF h.isEnded THEN h ELSE [isEnded |-> TRUE, r |-> ReaderCountDown(h.r)]

\* The reader after a raw stream's last two events: 'end' then 'close' when
\* it ends, 'error' then 'close' or 'close' alone when it is destroyed.
RawStreamEvents(r) == OnEnd(OnEnd([isEnded |-> FALSE, r |-> ShimmedClose(r)])).r

\* FdReader._read(start, length): where the bytes come from, or NULL when
\* the read fails ('Unexpected end of file').
FdReadOffset(f, r, start, length) ==
    LET from == IF start = NULL THEN r.position ELSE start
    IN  IF from + length > f.size THEN NULL ELSE from

\* The descriptor's position after FdReader._read(start, length).
FdReadAdvance(f, r, start, length) ==
    IF start # NULL THEN r
    ELSE IF r.position + length > f.size THEN [r EXCEPT !.position = f.size]
    ELSE [r EXCEPT !.position = @ + length]

(***************************************************************************)
(* Entry.openReadStream and its transform streams (src/src/reader.ts).      *)
(***************************************************************************)

IsEncrypted(entry) == BitAnd(entry.generalPurposeBitFlag, 1) # 0
IsCompressed(entry) == entry.compressionMethod # 0

\* openReadStream() without options.  In an options object a flag is "true",
\* "false" or "unset"; start and end are numbers or NULL.
NoOptions ==
    [ given |-> FALSE, decompress |-> "unset", decrypt |-> "unset",
      validateCrc32 |-> "unset", start |-> NULL, end |-> NULL ]

\* reader.ts 411-518: the options resolved against the entry, and the error
\* the call returns before any read ("" when none).
ResolveOptions(entry, o) ==
    LET decompress == IF o.given /\ o.decompress # "unset"
                      THEN o.decompress = "true" /\ IsCompressed(entry)
                      ELSE IsCompressed(entry)
        decrypt == IF o.given /\ o.decrypt # "unset"
                   THEN o.decrypt = "true" /\ IsEncrypted(entry)
                   ELSE IsEncrypted(entry)
        validateCrc32 == IF ~o.given THEN TRUE
                         ELSE IF o.validateCrc32 # "unset" THEN o.validateCrc32 = "true"
                         ELSE ~decompress
        hasStart == o.given /\ o.start # NULL
        hasEnd == o.given /\ o.end # NULL
        start == IF hasStart THEN o.start ELSE 0
        end == IF hasEnd THEN o.end ELSE entry.compressedSize
        error ==
            IF o.given /\ o.validateCrc32 = "true" /\ decompress
            THEN "Cannot validate CRC32 for uncompressed data"
            ELSE IF hasStart /\ start # 0 /\ decompress
            THEN "Cannot stream a section of file if decompressing"
            ELSE IF hasStart /\ start # 0 /\ validateCrc32
            THEN "Cannot validate CRC32 for a section of file"
            ELSE IF hasStart /\ start # 0 /\ start > entry.compressedSize
            THEN "start is after end of file data"
            ELSE IF hasEnd /\ decompress
            THEN "Cannot stream a section of file if decompressing"
            ELSE IF hasEnd /\ validateCrc32
            THEN "Cannot validate CRC32 for a section of file"
            ELSE IF hasEnd /\ end > entry.compressedSize
            THEN "end is after end of file data"
            ELSE IF hasEnd /\ end < start
            THEN "end is before start"
            ELSE IF decrypt THEN "Decryption is not supported"
            ELSE IF decompress /\ entry.compressionMethod # 8
            THEN "Unsupported compression method"
            ELSE IF decompress /\ IsEncrypted(entry)
            THEN "Cannot decompress encrypted data"
            ELSE IF validateCrc32 /\ IsEncrypted(entry)
            THEN "Cannot validate CRC32 of encrypted data"
            ELSE ""
    IN  [ decompress |-> decompress, validateCrc32 |-> validateCrc32,
          start |-> start, end |-> end, error |-> error ]

\* reader.ts 557-561
MatchesMacSignature(entry, lfh) ==
    /\ lfh.crc32 = 0
    /\ lfh.compressedSize = 0
    /\ lfh.uncompressedSize = 0
    /\ lfh.filenameLength = entry.filenameLength
    /\ lfh.extraFieldsLength = Len(entry.extraFields) * MAC_LFH_EXTRA_FIELDS_LENGTH

\* An openReadStream that treats a maybe-Mac archive as it does a Mac one:
\* a header that does not match fails the call (reader.ts 566-569 left out).
OpenReadStreamAfterLfh_MaybeMacFails(z, es, i, lfh) ==
    IF lfh = << >>
    THEN [z |-> z, es |-> es, error |-> "Invalid Local File Header signature"]
    ELSE
      LET h == lfh[1]
          fileDataOffset == Num(es[i].fileHeaderOffset) + LFH_LENGTH
                            + h.filenameLength + h.extraFieldsLength
          es1 == [es EXCEPT ![i].fileDataOffset = fileDataOffset]
          matches == MatchesMacSignature(es[i], h)
      IN  IF (z.isMacArchive \/ z.isMaybeMacArchive) /\ ~matches
          THEN [z |-> z, es |-> es1, error |-> "Misidentified Mac OS Archive Utility ZIP"]
          ELSE IF es1[i].compressedSize # 0
                  /\ fileDataOffset + es1[i].compressedSize > z.footerOffset
          THEN [z |-> z, es |-> es1, error |-> "File data overflows file bounds"]
          ELSE [z |-> z, es |-> es1, error |-> ""]

\* reader.ts 527-575: after the Local File Header read found the header
\* `lfh` (<<>> when the signature is missing) for entry i.  [z, es, error].
OpenReadStreamAfterLfh(z, es, i, lfh) ==
    IF lfh = << >>
    THEN [z |-> z, es |-> es, error |-> "Invalid Local File Header signature"]
    ELSE
      LET h == lfh[1]
          fileDataOffset == Num(es[i].fileHeaderOffset) + LFH_LENGTH
                            + h.filenameLength + h.extraFieldsLength
          es1 == [es EXCEPT ![i].fileDataOffset = fileDataOffset]
          matches == MatchesMacSignature(es[i], h)
          demote == ~z.isMacArchive /\ z.isMaybeMacArchive /\ ~matches
          z2 == IF demote THEN SetAsNotMacArchive(z) ELSE z
          es2 == IF demote THEN SetAsNotMacArchiveEntries(z, es1) ELSE es1
      IN  IF z.isMacArchive /\ ~matches
          THEN [z |-> z, es |-> es1, error |-> "Misidentified Mac OS Archive Utility ZIP"]
          ELSE IF es2[i].compressedSize # 0
                  /\ fileDataOffset + es2[i].compressedSize > z2.footerOffset
          THEN [z |-> z2, es |-> es2, error |-> "File data overflows file bounds"]
          ELSE [z |-> z2, es |-> es2, error |-> ""]

\* The largest chunk a stream hands to the next one (a highWaterMark is far
\* below 4 GiB, so a chunk never spans a whole 4 GiB jump).
MAX_CHUNK == 64

Min(a, b) == IF a <= b THEN a ELSE b

\* A slot that holds no openReadStream call and no stream.
FreeStream ==
    [ pc |-> "free", entry |-> 0, decompress |-> FALSE, validateCrc32 |-> FALSE,
      validateSize |-> FALSE, start |-> 0, end |-> 0, rawOpen |-> FALSE,
      inflateOk |-> TRUE, outLeft |-> 0, crc |-> 0,
      byteCount |-> 0, expectedByteCount |-> 0,
      rawStart |-> 0, rawLength |-> 0 ]

\* A request for the bytes from the start of the file data, whatever start is.
RawRequest_FromDataStart(fileDataOffset, start, end) ==
    [start |-> fileDataOffset, length |-> end - start]

\* The arguments of reader.createReadStream (reader.ts 576): where the raw
\* stream starts in the file and how many bytes it delivers.
RawRequest(fileDataOffset, start, end) ==
    [start |-> fileDataOffset + start, length |-> end - start]

\* reader.ts 578-607: the pipeline built for entry i once
\* createReadStream(fileDataOffset + start, end - start) has succeeded.  The
\* raw stream is counted by the Reader unless it is the empty stream.
\* Inflating yields the entry's real uncompressed bytes only when the raw
\* bytes are the whole deflate stream.
NewStream(f, z, es, i, opts) ==
    LET fileDataOffset == es[i].fileDataOffset
        length == RawRequest(fileDataOffset, opts.start, opts.end).length
        known == opts.start = 0 /\ fileDataOffset \in DOMAIN f.data
        whole == known /\ f.data[fileDataOffset].c = length
        inflateOk == ~opts.decompress \/ (whole /\ f.data[fileDataOffset].method = 8)
    IN  [ pc |-> "flowing", entry |-> i,
          decompress |-> opts.decompress, validateCrc32 |-> opts.validateCrc32,
          validateSize |-> opts.decompress /\ z.validateEntrySizes,
          start |-> opts.start, end |-> opts.end,
          rawOpen |-> length # 0,
          inflateOk |-> inflateOk,
          outLeft |-> IF ~opts.decompress THEN length
                      ELSE IF inflateOk THEN f.data[fileDataOffset].u ELSE 0,
          crc |-> IF length = 0 THEN 0
                  ELSE IF whole /\ (opts.decompress \/ f.data[fileDataOffset].method = 0)
                  THEN f.data[fileDataOffset].crc
                  ELSE 9,
          byteCount |-> 0,
          expectedByteCount |-> es[i].uncompressedSize,
          rawStart |-> RawRequest(fileDataOffset, opts.start, opts.end).start,
          rawLength |-> RawRequest(fileDataOffset, opts.start, opts.end).length ]

\* A _transform that enlarges the entry at every overflow, whatever another
\* stream has done to it (the test of reader.ts 641 always taken).
ValidateSizeTransform_AlwaysEnlarges(z, es, s, n) ==
    LET i == s.entry
        byteCount == s.byteCount + n
        s1 == [s EXCEPT !.byteCount = byteCount]
        R(zz, ees, ss, error) == [z |-> zz, es |-> ees, s |-> ss, error |-> error]
    IN
    IF ~(byteCount > s.expectedByteCount) THEN R(z, es, s1, "")
    ELSE IF es[i].uncompressedSizeIsCertain
    THEN R(z, es, s1, "Too many bytes in the stream")
    ELSE LET expected == es[i].uncompressedSize + FOUR_GIB
             s2 == [s1 EXCEPT !.expectedByteCount = expected]
             es2 == [es EXCEPT ![i].uncompressedSize = expected]
         IN  IF z.isMacArchive THEN R(z, es2, s2, "")
             ELSE IF ~z.isMaybeMacArchive
             THEN R(z, es2, s2, "Logic failure. Please raise an issue.")
             ELSE R(SetAsMacArchive(z, z.numEntriesRead, z._entryCursor),
                    SetAsMacArchiveEntries(z, es2), s2, "")

\* ValidateUncompressedSizeStream._transform(chunk) for the stream s of entry
\* s.entry, with chunk.length = n.  error is "" when the chunk is passed on.
ValidateSizeTransform(z, es, s, n) ==
    LET i == s.entry
        byteCount == s.byteCount + n
        s1 == [s EXCEPT !.byteCount = byteCount]
        R(zz, ees, ss, error) == [z |-> zz, es |-> ees, s |-> ss, error |-> error]
    IN
    IF ~(byteCount > s.expectedByteCount) THEN R(z, es, s1, "")
    ELSE IF es[i].uncompressedSizeIsCertain
    THEN R(z, es, s1, "Too many bytes in the stream")
    ELSE IF es[i].uncompressedSize = s.expectedByteCount
    THEN LET expected == s.expectedByteCount + FOUR_GIB
             s2 == [s1 EXCEPT !.expectedByteCount = expected]
             es2 == [es EXCEPT ![i].uncompressedSize = expected]
         IN  IF z.isMacArchive THEN R(z, es2, s2, "")
             ELSE IF ~z.isMaybeMacArchive
             THEN R(z, es2, s2, "Logic failure. Please raise an issue.")
             ELSE R(SetAsMacArchive(z, z.numEntriesRead, z._entryCursor),
                    SetAsMacArchiveEntries(z, es2), s2, "")
    ELSE R(z, es, [s1 EXCEPT !.expectedByteCount = es[i].uncompressedSize], "")

\* ValidateUncompressedSizeStream._flush
ValidateSizeFlush(z, es, s) ==
    LET i == s.entry
        R(zz, ees, error) == [z |-> zz, es |-> ees, error |-> error]
    IN
    IF s.byteCount < s.expectedByteCount
    THEN R(z, es, "Not enough bytes in the stream")
    ELSE IF es[i].uncompressedSizeIsCertain THEN R(z, es, "")
    ELSE IF es[i]._ref
    THEN R(IF z._uncertainUncompressedSizeEntryRefs = NULL_REFS THEN z
           ELSE [z EXCEPT !._uncertainUncompressedSizeEntryRefs = @ \ {i}],
           [es EXCEPT ![i].uncompressedSizeIsCertain = TRUE, ![i]._ref = FALSE], "")
    ELSE R(z, [es EXCEPT ![i].uncompressedSizeIsCertain = TRUE], "")

\* ValidateCrc32Stream._flush
ValidateCrc32Flush(s, expectedCrc32) ==
    IF s.crc = expectedCrc32 THEN "" ELSE "CRC32 validation failed"

(***************************************************************************)
(* Archives the model opens.                                               *)
(***************************************************************************)

Alphabet == << "a", "b", "c", "d", "e", "f", "g", "h", "i", "j", "k", "l" >>
Fn(i) == << Alphabet[i] >>

\* n small files as Mac Archive Utility writes them.
MacFiles(n) == [i \in 1 .. n |-> MacFile(Fn(i), 1, 1)]

\* n folders as Mac Archive Utility writes them, with names of 5 characters.
MacFolders(n) ==
    [i \in 1 .. n |->
       MacFolder(<< Alphabet[((i - 1) % Len(Alphabet)) + 1],
                    Alphabet[((i - 1) \div Len(Alphabet)) + 1], "a", "a", "/" >>)]

\* n small Mac files with names of 7 characters, so that each Central
\* Directory header has the maximum length of a Mac header.
LongNamedMacFiles(n) ==
    [i \in 1 .. n |->
       MacFile(<< Alphabet[((i - 1) % Len(Alphabet)) + 1], "a", "a", "a", "a", "a", "a" >>,
               1, 1)]

\* n small stored files as a spec-compliant writer lays them out.
PlainFiles(n) == [i \in 1 .. n |-> PlainStored(Fn(i), 1)]

\* A spec-compliant ZIP64 archive of shapes es: the EOCDR holds the escape
\* values, the ZIP64 EOCDR the real ones, and the ZIP64 EOCDL points at it.
BuildZip64Archive(es) ==
    LET b == BuildArchive(es, 0, 0)
        n == Len(es)
        cdOffset == LfhOffsetOf(es, n + 1)
        cdSize == CdhRelOffsetOf(es, n + 1)
        zip64EocdrOffset == cdOffset + cdSize
        zip64EocdlOffset == zip64EocdrOffset + ZIP64_EOCDR_SIZE
        footer == zip64EocdlOffset + ZIP64_EOCDL_SIZE
    IN  [b EXCEPT
           !.size = footer + EOCDR_WITHOUT_COMMENT_SIZE,
           !.real.sizesFit = \A i \in 1 .. n : es[i].c < U32_MAX /\ es[i].u < U32_MAX,
           !.real.fits = \A i \in 1 .. n : es[i].c < U32_MAX /\ es[i].u < U32_MAX,
           !.eocdr = [o \in {footer} |->
                        [ diskNumber |-> 0, entryCount |-> U16_MAX,
                          centralDirectorySize |-> U32_MAX,
                          centralDirectoryOffset |-> U32_MAX, commentLength |-> 0 ]],
           !.z64l = [o \in {zip64EocdlOffset} |-> [zip64EocdrOffset |-> zip64EocdrOffset]],
           !.z64r = [o \in {zip64EocdrOffset} |->
                        [ zip64EocdrSize |-> ZIP64_EOCDR_SIZE - ZIP64_EOCDR_PREFIX,
                          entryCount |-> n, centralDirectorySize |-> cdSize,
                          centralDirectoryOffset |-> cdOffset ]] ]

\* Archive a with the Central Directory File Header at offset o stating
\* `size` bytes of file data behind a Local File Header at `offset`.
StatedEntry(a, o, size, offset) ==
    [a EXCEPT !.cdh[o] = [@ EXCEPT !.compressedSize = size,
                                   !.uncompressedSize = size,
                                   !.fileHeaderOffset = offset]]

\* Two entries with the Mac signature whose headers state more file data than
\* the file holds, one range after the other up to 4 GiB and over, and a
\* plain third entry: overlapping entries, as in a ZIP bomb.
OverlappingArchive ==
    LET es == << MacSymlink(Fn(1), 1), MacSymlink(Fn(2), 1), PlainStored(Fn(3), 1) >>
        gap == 70
        a == BuildArchive(es, gap, 0)
        cdOffset == LfhOffsetOf(es, 4) + gap
        stated == 70
        second == LFH_LENGTH + 1 + stated
    IN  StatedEntry(StatedEntry(a, cdOffset, stated, 0),
                    cdOffset + CdhRelOffsetOf(es, 2), stated, second)

\* A file laid out as Mac Archive Utility does and a plain one, in an archive
\* whose EOCDR states one entry and lies 4 GiB behind the end of the Central
\* Directory.
UnderstatedArchive ==
    LET es == << MacFile(Fn(1), 1, 1), PlainStored(Fn(2), 1) >>
        a == BuildArchive(es, 0, 0)
        cdOffset == LfhOffsetOf(es, 3)
        cdSize == CdhRelOffsetOf(es, 3)
        footer == cdOffset + cdSize + FOUR_GIB
    IN  [a EXCEPT !.size = footer + EOCDR_WITHOUT_COMMENT_SIZE,
                  !.eocdr = [o \in {footer} |->
                               [ diskNumber |-> 0, entryCount |-> 1,
                                 centralDirectorySize |-> cdSize,
                                 centralDirectoryOffset |-> cdOffset,
                                 commentLength |-> 0 ]]]

\* An empty archive whose EOCDR states a Central Directory offset beyond the
\* footer (bytes 16-19, types.ts 256-257).
MisplacedDirectoryArchive ==
    LET a == BuildArchive(<< >>, 0, 0)
    IN  [a EXCEPT !.eocdr = [o \in DOMAIN a.eocdr |->
                               [a.eocdr[o] EXCEPT !.centralDirectoryOffset = 5]]]

Archives ==
    << BuildArchive(<< >>, 0, 0),
       BuildArchive(<< PlainStored(Fn(1), 2), PlainDeflated(Fn(2), 1, 3) >>, 0, 0),
       BuildArchive(<< PlainDeflated(Fn(1), 1, 2), PlainStored(Fn(2), 1) >>, 1, 1),
       BuildArchive(<< MacFile(Fn(1), 1, 2), MacFolder(<< "d", "/" >>), MacSymlink(Fn(3), 1) >>,
                    0, 0),
       BuildArchive(<< Lookalike(Fn(1), 1, 2), PlainStored(Fn(2), 1) >>, 0, 0),
       BuildArchive(<< Lookalike(Fn(1), 1, 2) >>, 0, 0),
       BuildArchive(<< MacFile(Fn(1), 130, 130) >>, 0, 0),
       BuildArchive(<< MacFile(Fn(1), 130, 130), MacFile(Fn(2), 1, 1) >>, 0, 0),
       BuildArchive(<< MacFile(Fn(1), 40, 130), MacFile(Fn(2), 1, 1) >>, 0, 0),
       BuildArchive(MacFiles(U16_MAX), 0, 0),
       BuildArchive(MacFiles(U16_RANGE), 0, 0),
       BuildArchive(MacFiles(U16_RANGE + 1), 0, 0),
       BuildZip64Archive(<< PlainStored(Fn(1), 2), PlainDeflated(Fn(2), 1, 3) >>),
       BuildArchive(MacFolders(2 * U16_RANGE + 1), 0, 0),
       BuildArchive(PlainFiles(U16_MAX), 0, 0),
       BuildArchive(<< Lookalike(Fn(1), 40, 2), PlainStored(Fn(2), 1) >>, 0, 0),
       OverlappingArchive,
       UnderstatedArchive,
       BuildArchive(<< MacFile(Fn(1), 40, 130), Lookalike(Fn(2), 1, 2) >>, 0, 0),
       BuildArchive(MacFiles(U16_MAX - 1) \o << MacFile(Fn(U16_MAX), 130, 130) >>, 0, 0),
       BuildArchive(LongNamedMacFiles(2 * U16_MAX), 0, 0),
       MisplacedDirectoryArchive >>

\* The options a caller passes to the factory (validateOptions fills in the
\* rest with the defaults).
ZipOptions == {[DefaultOptions EXCEPT !.supportMacArchive = b] : b \in BOOLEAN}

\* openReadStream options the callers of the model use.
StreamOptions == {NoOptions, [NoOptions EXCEPT !.given = TRUE, !.decompress = "false"]}

\* readEntries(numEntries): the arguments used; NULL is readEntries().
BatchSizes == {0, 2, NULL}

\* Concurrent openReadStream calls / streams, and concurrent close() calls.
MaxStreams == 2
MaxClosers == 2

\* Calls of openReadStream, readEntries, close, open and destroy a run makes
\* on one of the ConcurrentArchives, at any time and in any order.  On the
\* other archives the caller runs one operation at a time, and streams an
\* entry when readEntry has just returned it.
MaxCalls == 2

\* The archives (by their place in Archives) read with concurrent calls: the
\* empty one, the two with a lookalike entry, and the Mac ones with a file of
\* 4 GiB or more, alone or followed by a small file.
ConcurrentArchives == {1, 5, 6, 7, 9}
\* The archives among them whose streams are destroyed without counting the
\* destroy among the calls.
DestroyArchives == {5}

(***************************************************************************)
(* The state.                                                              *)
(***************************************************************************)
VARIABLES
    file,      \* the archive on disk
    zip,       \* the Zip object
    reader,    \* the Reader the Zip reads through
    entries,   \* the Entry objects handed out, in order of creation
    ini,       \* where the init() call stands
    re,        \* where the readEntry() call in progress stands
    batch,     \* where the readEntries() call in progress stands
    streams,   \* openReadStream calls and the streams they returned
    closers,   \* close() calls waiting for their timer
    calls,     \* calls of openReadStream, readEntries and close made so far
    out        \* the result of the call that settled last

vars == << file, zip, reader, entries, ini, re, batch, streams, closers, calls, out >>

REENTRANT == "Cannot call readEntry() before previous call's promise has settled"
NOT_OPEN_READ == "Cannot call read() on a reader which is not open"
NOT_OPEN_STREAM == "Cannot call createReadStream() on a reader which is not open"
CANNOT_CLOSE == "Cannot close while reading in progress"
NO_DESCRIPTOR == "File descriptor not open"

IdleInit == [pc |-> "new", offset |-> 0, centralDirectoryEnd |-> 0, alreadyCheckedOffset |-> NULL, error |-> ""]
IdleRead ==
    [ pc |-> "idle", owner |-> "client", props |-> << >>, fileDataOffsetIfMac |-> 0,
      fileDataEnd |-> 0, result |-> OK_NULL ]
IdleBatch == [pc |-> "idle", numEntries |-> 0, got |-> 0]
NoOut == [op |-> "none", fails |-> FALSE, error |-> "", entry |-> 0, n |-> 0]
Out(op, result, n) ==
    [ op |-> op, fails |-> result.fails, error |-> result.error,
      entry |-> IF result.value = << >> THEN 0 ELSE result.value[1], n |-> n ]

Init ==
    /\ file \in {Archives[i] : i \in DOMAIN Archives}
    /\ zip \in {NewZip(file.size, o) : o \in ZipOptions}
    /\ reader = OpenedReader
    /\ entries = << >>
    /\ ini = IdleInit
    /\ re = IdleRead
    /\ batch = IdleBatch
    /\ streams = [k \in 1 .. MaxStreams |-> FreeStream]
    /\ closers = 0
    /\ calls = 0
    /\ out = NoOut

(***************************************************************************)
(* init(): one action per read, with the synchronous code that follows it. *)
(***************************************************************************)

InitReadPcs == {"eocdr", "eocdl", "zip64r", "probe", "search"}

\* init() returns OK (types.ts 180-182) / returns an error.
IniDone(z) ==
    [ z |-> [z EXCEPT !._entryCursor = z.centralDirectoryOffset],
      ini |-> [IdleInit EXCEPT !.pc = "done"] ]
IniFail(z, error) == [z |-> z, ini |-> [IdleInit EXCEPT !.pc = "failed", !.error = error]]

\* init() waits for a read.
IniRead(z, pc, offset, centralDirectoryEnd, alreadyCheckedOffset) ==
    [ z |-> z,
      ini |-> [ pc |-> pc, offset |-> offset, centralDirectoryEnd |-> centralDirectoryEnd,
                alreadyCheckedOffset |-> alreadyCheckedOffset, error |-> "" ] ]

\* _readEntryAt(offset) called by _locateCentralDirectory: it returns at once
\* when the header cannot fit before the footer (types.ts 983-985).
IniReadEntryAt(z, pc, offset, centralDirectoryEnd, alreadyCheckedOffset) ==
    IF offset + CDH_MIN_LENGTH > z.footerOffset
    THEN IniFail(z, "Invalid Central Directory File Header")
    ELSE IniRead(z, pc, offset, centralDirectoryEnd, alreadyCheckedOffset)

IniFinal(z, entry, centralDirectoryEnd) ==
    LET F == LocateCentralDirectoryFinal(z, entry, centralDirectoryEnd)
    IN  IF F.fails THEN IniFail(F.z, F.error) ELSE IniDone(F.z)

\* types.ts 492: the search loop's condition.
IniSearchFrom(z, offset, centralDirectoryEnd, alreadyCheckedOffset) ==
    IF offset > alreadyCheckedOffset
    THEN IniReadEntryAt(z, "search", offset, centralDirectoryEnd, alreadyCheckedOffset)
    ELSE IniFinal(z, << >>, centralDirectoryEnd)

IniSearchStart(z, centralDirectoryEnd, alreadyCheckedOffset) ==
    IF SearchStartOffset(z) = NULL
    THEN IniFail(z, "Inconsistent Central Directory size and entry count")
    ELSE IniSearchFrom(z, SearchStartOffset(z), centralDirectoryEnd, alreadyCheckedOffset)

\* init() from the call of _locateCentralDirectory (types.ts 175).
IniLocate(z) ==
    LET P == LocateCentralDirectoryPre(z)
    IN  IF P.next = "ok" THEN IniDone(P.z)
        ELSE IF P.next = "fail" THEN IniFail(P.z, P.error)
        ELSE IF P.next = "probe"
        THEN IniReadEntryAt(P.z, "probe", P.z.centralDirectoryOffset, P.centralDirectoryEnd, NULL)
        ELSE IniSearchStart(P.z, P.centralDirectoryEnd, NULL)

\* The pending read has completed and init() has run up to `step`.
InitStep(step) ==
    /\ zip' = step.z
    /\ ini' = step.ini
    /\ reader' = IF step.ini.pc \in InitReadPcs
                 THEN ReaderCountUp(ReaderCountDown(reader))
                 ELSE ReaderCountDown(reader)
    /\ UNCHANGED << file, entries, re, batch, streams, closers, calls, out >>

\* init() is called: _locateEocdr issues its read of the file's tail.
InitCall ==
    /\ ini.pc = "new"
    /\ IF zip.size < EOCDR_WITHOUT_COMMENT_SIZE
       THEN /\ ini' = IniFail(zip, "End of Central Directory Record not found").ini
            /\ UNCHANGED reader
       ELSE /\ ini' = [IdleInit EXCEPT !.pc = "eocdr"]
            /\ reader' = ReaderCountUp(reader)
    /\ UNCHANGED << file, zip, entries, re, batch, streams, closers, calls, out >>

\* The tail has been read: locate and parse the EOCDR, then go on to the
\* ZIP64 records or to the Central Directory.
InitEocdrRead ==
    /\ ini.pc = "eocdr"
    /\ LET L == LocateEocdr(file, zip.size)
           z1 == [zip EXCEPT !.footerOffset = L.value[1]]
           z2 == ParseEocdr(file, z1)
       IN  InitStep(
             IF L.fails THEN IniFail(zip, L.error)
             ELSE IF ParseEocdrFails(file, z1)
             THEN IniFail(z1, "Multi-disk ZIP files are not supported")
             ELSE IF ~z2.isZip64 THEN IniLocate(z2)
             ELSE IF z2.footerOffset - ZIP64_EOCDL_SIZE < 0
             THEN IniFail(z2, "Cannot locate ZIP64 End of Central Directory Locator")
             ELSE IniRead(z2, "eocdl", z2.footerOffset - ZIP64_EOCDL_SIZE, 0, NULL))

\* The ZIP64 EOCDL has been read.
InitEocdlRead ==
    /\ ini.pc = "eocdl"
    /\ LET P == ParseZip64Eocdl(file, zip)
       IN  InitStep(
             IF P.next = "ok" THEN IniLocate(P.z)
             ELSE IF P.next = "fail" THEN IniFail(P.z, P.error)
             ELSE IniRead(P.z, "zip64r", P.offset, 0, NULL))

\* The ZIP64 EOCDR has been read.
InitZip64EocdrRead ==
    /\ ini.pc = "zip64r"
    /\ LET P == ParseZip64EocdrRecord(file, zip, ini.offset)
       IN  InitStep(IF P.next = "ok" THEN IniLocate(P.z) ELSE IniFail(P.z, P.error))

\* _readEntryAt(centralDirectoryOffset) has returned (types.ts 446).
InitProbeRead ==
    /\ ini.pc = "probe"
    /\ LET P == LocateCentralDirectoryProbe(zip, ReadEntryAt(file, zip.footerOffset, ini.offset))
       IN  InitStep(
             IF P.next = "ok" THEN IniDone(P.z)
             ELSE IF P.next = "fail" THEN IniFail(P.z, P.error)
             ELSE IF P.entry # << >> THEN IniFinal(P.z, P.entry, ini.centralDirectoryEnd)
             ELSE IniSearchStart(P.z, ini.centralDirectoryEnd, zip.centralDirectoryOffset))

\* _readEntryAt(offset) of the search loop has returned (types.ts 493).
InitSearchRead ==
    /\ ini.pc = "search"
    /\ LET S == LocateCentralDirectorySearch(zip, ReadEntryAt(file, zip.footerOffset, ini.offset),
                                             ini.offset)
       IN  InitStep(
             IF S.next = "fail" THEN IniFail(S.z, S.error)
             ELSE IF S.next = "found" THEN IniFinal(S.z, S.entry, ini.centralDirectoryEnd)
             ELSE IniSearchFrom(S.z, S.offset, ini.centralDirectoryEnd,
                                ini.alreadyCheckedOffset))

(***************************************************************************)
(* readEntry(): the call, one action per read, and the settling of the     *)
(* promise.  A step is the Zip, the entries, the Reader and the call's      *)
(* position after the synchronous code has run up to the next await.        *)
(***************************************************************************)

\* A readEntry() without its guard: it never finds a call in progress.
ReadEntryBusy_Never(z) == FALSE

\* types.ts 599: the guard of readEntry().
ReadEntryBusy(z) == z._isReading

\* _readEntry has returned `result`; readEntry's promise is still to settle.
ReSettle(z, es, rd, owner, result) ==
    [ z |-> z, es |-> es, rd |-> rd,
      re |-> [IdleRead EXCEPT !.pc = "settle", !.owner = owner, !.result = result] ]

\* types.ts 746-814
ReFinish(z, es, rd, owner, p, fileDataOffsetIfMac) ==
    LET F == ReadEntryFinish(z, es, p, fileDataOffsetIfMac)
    IN  ReSettle(F.z, F.es, rd, owner, F.result)

\* types.ts 893: reader.read(fileDataEnd, 20) is called.
ReIssueDd(z, es, rd, owner, p, fileDataOffsetIfMac, fileDataEnd) ==
    IF ~rd._isOpen THEN ReSettle(z, es, rd, owner, Err(NOT_OPEN_READ))
    ELSE [ z |-> z, es |-> es, rd |-> ReaderCountUp(rd),
           re |-> [ pc |-> "dd", owner |-> owner, props |-> << p >>,
                    fileDataOffsetIfMac |-> fileDataOffsetIfMac,
                    fileDataEnd |-> fileDataEnd, result |-> OK_NULL ] ]

\* types.ts 737-744 and on, once _determineCompressedSize returned `result`
\* with the properties `p`.
ReAfterDetermine(z, es, rd, owner, p, fileDataOffsetIfMac, result) ==
    IF result.fails THEN ReSettle(z, es, rd, owner, result)
    ELSE ReFinish(ReadEntryAfterDetermine(z, result), es, rd, owner, p, fileDataOffsetIfMac)

\* types.ts 724-744: from the entry's properties to the next await.
ReAfterProps(z, es, rd, owner, p) ==
    LET fileDataOffsetIfMac == FileDataOffsetIfMac(p)
        D == DetermineCompressedSizePre(z, p, fileDataOffsetIfMac)
    IN  IF z.compressedSizesAreCertain
        THEN ReFinish(z, es, rd, owner, p, fileDataOffsetIfMac)
        ELSE IF D.next = "read"
        THEN ReIssueDd(z, es, rd, owner, D.props, fileDataOffsetIfMac, D.fileDataEnd)
        ELSE ReAfterDetermine(z, es, rd, owner, D.props, fileDataOffsetIfMac, D.result)

\* A _readEntry without its test for the end of the iteration (types.ts
\* 617-619 left out).
ReStart_NoExhaustionTest(z0, es, rd, owner) ==
    LET z == [z0 EXCEPT !._isReading = TRUE]
    IN  IF z._firstEntryProps # << >>
        THEN ReAfterProps([z EXCEPT !._firstEntryProps = << >>], es, rd, owner,
                          z._firstEntryProps[1])
        ELSE IF z._entryCursor + CDH_MIN_LENGTH > z.footerOffset
        THEN ReSettle(z, es, rd, owner, Err("Invalid Central Directory File Header"))
        ELSE IF ~rd._isOpen THEN ReSettle(z, es, rd, owner, Err(NOT_OPEN_READ))
        ELSE [ z |-> z, es |-> es, rd |-> ReaderCountUp(rd),
               re |-> [IdleRead EXCEPT !.pc = "readAt", !.owner = owner] ]

\* types.ts 603-629: readEntry() past its guard, up to the first await.
ReStart(z0, es, rd, owner) ==
    LET z == [z0 EXCEPT !._isReading = TRUE]
    IN  IF ReadEntryExhausted(z) THEN ReSettle(z, es, rd, owner, OK_NULL)
        ELSE IF z._firstEntryProps # << >>
        THEN ReAfterProps([z EXCEPT !._firstEntryProps = << >>], es, rd, owner,
                          z._firstEntryProps[1])
        ELSE IF z._entryCursor + CDH_MIN_LENGTH > z.footerOffset
        THEN ReSettle(z, es, rd, owner, Err("Invalid Central Directory File Header"))
        ELSE IF ~rd._isOpen THEN ReSettle(z, es, rd, owner, Err(NOT_OPEN_READ))
        ELSE [ z |-> z, es |-> es, rd |-> ReaderCountUp(rd),
               re |-> [IdleRead EXCEPT !.pc = "readAt", !.owner = owner] ]

ReStep(step) ==
    /\ zip' = step.z
    /\ entries' = step.es
    /\ reader' = step.rd
    /\ re' = step.re

\* The caller's discipline (see MaxCalls).
Sequential == \A i \in ConcurrentArchives : file # Archives[i]
Quiet ==
    /\ re.pc = "idle"
    /\ batch.pc = "idle"
    /\ closers = 0
    /\ \A k \in 1 .. MaxStreams : streams[k].pc = "free"
DestroyAtWill == \E i \in DestroyArchives : file = Archives[i]
MayCall == IF Sequential THEN Quiet ELSE calls < MaxCalls
\* destroy() returns at once, so a caller that runs one operation at a time
\* may call close() right after it, before the raw stream has emitted 'close'.
QuietButDestroyed ==
    /\ re.pc = "idle"
    /\ batch.pc = "idle"
    /\ closers = 0
    /\ \A k \in 1 .. MaxStreams : streams[k].pc \in {"free", "destroyed"}
MayClose == IF Sequential THEN QuietButDestroyed ELSE calls < MaxCalls
Called == IF Sequential THEN calls ELSE calls + 1

\* A caller calls readEntry().
ReadEntryCall ==
    /\ ini.pc = "done"
    /\ Sequential => Quiet
    /\ IF ReadEntryBusy(zip)
       THEN /\ out' = Out("readEntry", Err(REENTRANT), 0)
            /\ UNCHANGED << zip, entries, reader, re >>
       ELSE /\ ReStep(ReStart(zip, entries, reader, "client"))
            /\ UNCHANGED out
    /\ UNCHANGED << file, ini, batch, streams, closers, calls >>

\* _readEntryAt(_entryCursor) has returned.
ReadEntryAtRead ==
    /\ re.pc = "readAt"
    /\ LET rd == ReaderCountDown(reader)
           R == ReadEntryAfterRead(zip, entries,
                                   ReadEntryAt(file, zip.footerOffset, zip._entryCursor))
       IN  ReStep(IF R.next = "ret" THEN ReSettle(R.z, R.es, rd, re.owner, R.result)
                  ELSE ReAfterProps(R.z, R.es, rd, re.owner, R.props[1]))
    /\ UNCHANGED << file, ini, batch, streams, closers, calls, out >>

\* The read of _determineCompressedSize at fileDataEnd has returned.
ReadEntryDdRead ==
    /\ re.pc = "dd"
    /\ LET rd == ReaderCountDown(reader)
           p == re.props[1]
           L == DetermineCompressedSizeLoop(file, zip, p, re.fileDataEnd)
           P == DetermineCompressedSizePost(zip, entries, p, re.fileDataOffsetIfMac,
                                            L.next = "found", L.fileDataEnd)
       IN  ReStep(IF L.next = "fail"
                  THEN ReSettle(zip, entries, rd, re.owner, Err("Unexpected end of file"))
                  ELSE IF L.next = "again"
                  THEN ReIssueDd(zip, entries, rd, re.owner, p, re.fileDataOffsetIfMac,
                                 L.fileDataEnd)
                  ELSE ReAfterDetermine(P.z, P.es, rd, re.owner, P.props,
                                        re.fileDataOffsetIfMac, P.result))
    /\ UNCHANGED << file, ini, batch, streams, closers, calls, out >>

\* readEntry's promise settles (types.ts 607-609); a readEntries() that made
\* the call takes the result (types.ts 1366-1375).
ReadEntrySettle ==
    /\ re.pc = "settle"
    /\ zip' = [zip EXCEPT !._isReading = FALSE]
    /\ re' = IdleRead
    /\ IF re.owner = "client"
       THEN /\ out' = Out("readEntry", re.result, 0)
            /\ UNCHANGED batch
       ELSE IF re.result.fails
       THEN /\ out' = Out("readEntries", re.result, batch.got)
            /\ batch' = IdleBatch
       ELSE IF re.result.value = << >>
       THEN /\ out' = Out("readEntries", OK_NULL, batch.got)
            /\ batch' = IdleBatch
       ELSE /\ batch' = [batch EXCEPT !.pc = "next", !.got = @ + 1]
            /\ UNCHANGED out
    /\ UNCHANGED << file, reader, entries, ini, streams, closers, calls >>

\* types.ts 1364: the loop's test i < numEntries, with i the number of
\* entries pushed so far and NULL for Infinity.
ReadEntriesMore(b) == b.numEntries = NULL \/ b.got < b.numEntries

\* A caller calls readEntries(n), or readEntries() when n is NULL.
ReadEntriesCall ==
    /\ ini.pc = "done"
    /\ batch.pc = "idle"
    /\ MayCall
    /\ calls' = Called
    /\ \E n \in BatchSizes : batch' = [pc |-> "next", numEntries |-> n, got |-> 0]
    /\ UNCHANGED << file, zip, reader, entries, ini, re, streams, closers, out >>

\* readEntries' loop: its test and its call of readEntry() (types.ts 1364-1365).
ReadEntriesNext ==
    /\ batch.pc = "next"
    /\ IF ~ReadEntriesMore(batch)
       THEN /\ out' = Out("readEntries", OK_NULL, batch.got)
            /\ batch' = IdleBatch
            /\ UNCHANGED << zip, entries, reader, re >>
       ELSE IF ReadEntryBusy(zip)
       THEN /\ out' = Out("readEntries", Err(REENTRANT), batch.got)
            /\ batch' = IdleBatch
            /\ UNCHANGED << zip, entries, reader, re >>
       ELSE /\ ReStep(ReStart(zip, entries, reader, "batch"))
            /\ batch' = [batch EXCEPT !.pc = "wait"]
            /\ UNCHANGED out
    /\ UNCHANGED << file, ini, streams, closers, calls >>

(***************************************************************************)
(* openReadStream(): the call, its Local File Header read, and the events  *)
(* of the stream it returns.                                               *)
(***************************************************************************)

FreeSlots == {k \in 1 .. MaxStreams : streams[k].pc = "free"}
LowestFree == CHOOSE k \in FreeSlots : \A j \in FreeSlots : k <= j

\* The callers hold entry i: readEntry() has returned it, or readEntries()
\* has returned with it (the entries of a running batch are its last ones).
Returned(i) ==
    /\ ~(re.pc = "settle" /\ ~re.result.fails /\ re.result.value = << i >>)
    /\ batch.pc # "idle" => i <= Len(entries) - batch.got

\* A caller calls entry.openReadStream(options) (reader.ts 404-522).
OpenReadStreamWith(O) ==
    /\ ini.pc = "done"
    /\ FreeSlots # {}
    /\ MayCall
    /\ calls' = Called
    /\ \E i \in DOMAIN entries, o \in O :
         LET opts == ResolveOptions(entries[i], o)
         IN  /\ Returned(i)
             /\ Sequential => (out.op = "readEntry" /\ out.entry = i)
             /\ IF opts.error # ""
                THEN /\ out' = Out("openReadStream", Err(opts.error), i)
                     /\ UNCHANGED << reader, streams >>
                ELSE IF ~reader._isOpen
                THEN /\ out' = Out("openReadStream", Err(NOT_OPEN_READ), i)
                     /\ UNCHANGED << reader, streams >>
                ELSE /\ streams' = [streams EXCEPT ![LowestFree] =
                                      [FreeStream EXCEPT !.pc = "lfh", !.entry = i,
                                                         !.decompress = opts.decompress,
                                                         !.validateCrc32 = opts.validateCrc32,
                                                         !.start = opts.start, !.end = opts.end]]
                     /\ reader' = ReaderCountUp(reader)
                     /\ UNCHANGED out
    /\ UNCHANGED << file, zip, entries, ini, re, batch, closers >>

OpenReadStreamCall == OpenReadStreamWith(StreamOptions)

\* What the subclass hook _createReadStream may do: return a stream (FALSE)
\* or an error (TRUE), as FdReader's does without a descriptor.
HookFailures == BOOLEAN

\* Reader.createReadStream (reader.ts 95-146), up to the return of the
\* stream: the reader afterwards and the error returned, "" for none.  A
\* request of no bytes is answered with an empty stream and is not counted.
ReaderCreateReadStream(r, length, hookFails) ==
    IF ~r._isOpen THEN [r |-> r, error |-> NOT_OPEN_STREAM]
    ELSE IF length = 0 THEN [r |-> r, error |-> ""]
    ELSE IF hookFails
    THEN [r |-> ReaderCountDown(ReaderCountUp(r)), error |-> NO_DESCRIPTOR]
    ELSE [r |-> ReaderCountUp(r), error |-> ""]

\* The Local File Header read has returned (reader.ts 522-607).
OpenReadStreamLfhRead ==
    \E k \in 1 .. MaxStreams :
      /\ streams[k].pc = "lfh"
      /\ LET s == streams[k]
             i == s.entry
             offset == FdReadOffset(file, reader, entries[i].fileHeaderOffset, LFH_LENGTH)
             rd == ReaderCountDown(
                       FdReadAdvance(file, reader, entries[i].fileHeaderOffset, LFH_LENGTH))
             lfh == IF offset \in DOMAIN file.lfh THEN << file.lfh[offset] >> ELSE << >>
             A == OpenReadStreamAfterLfh(zip, entries, i, lfh)
         IN  IF offset = NULL
             THEN /\ out' = Out("openReadStream", Err("Unexpected end of file"), i)
                  /\ reader' = rd
                  /\ streams' = [streams EXCEPT ![k] = FreeStream]
                  /\ UNCHANGED << zip, entries >>
             ELSE /\ zip' = A.z
                  /\ entries' = A.es
                  /\ IF A.error # ""
                     THEN /\ out' = Out("openReadStream", Err(A.error), i)
                          /\ reader' = rd
                          /\ streams' = [streams EXCEPT ![k] = FreeStream]
                     ELSE \E hookFails \in HookFailures :
                          LET C == ReaderCreateReadStream(rd, s.end - s.start, hookFails)
                          IN  /\ reader' = C.r
                              /\ IF C.error # ""
                                 THEN /\ out' = Out("openReadStream", Err(C.error), i)
                                      /\ streams' = [streams EXCEPT ![k] = FreeStream]
                                 ELSE /\ out' = Out("openReadStream", Ok(i), i)
                                      /\ streams' = [streams EXCEPT ![k] =
                                                       NewStream(file, A.z, A.es, i, s)]
      /\ UNCHANGED << file, ini, re, batch, closers, calls >>

\* The pipeline of slot k fails with `error`: the raw stream is destroyed and
\* closes later, unless it has ended already.
StreamFail(k, s, error) ==
    /\ out' = Out("stream", Err(error), s.entry)
    /\ streams' = [streams EXCEPT ![k] =
                     IF s.rawOpen THEN [s EXCEPT !.pc = "errored"] ELSE FreeStream]

\* A chunk of at most MAX_CHUNK bytes goes through the transforms.
StreamData ==
    \E k \in 1 .. MaxStreams :
      /\ streams[k].pc = "flowing"
      /\ streams[k].outLeft > 0
      /\ LET s == streams[k]
             n == Min(s.outLeft, MAX_CHUNK)
             T == ValidateSizeTransform(zip, entries, s, n)
         IN  IF ~s.validateSize
             THEN /\ streams' = [streams EXCEPT ![k].outLeft = @ - n]
                  /\ UNCHANGED << zip, entries, out >>
             ELSE /\ zip' = T.z
                  /\ entries' = T.es
                  /\ IF T.error # "" THEN StreamFail(k, T.s, T.error)
                     ELSE /\ streams' = [streams EXCEPT ![k] = [T.s EXCEPT !.outLeft = @ - n]]
                          /\ UNCHANGED out
      /\ UNCHANGED << file, reader, ini, re, batch, closers, calls >>

\* The caller destroys the stream of slot k: the pipeline destroys the raw
\* stream (reader.ts 600-604), which emits 'close' later, unless it has
\* ended already.  destroy() is synchronous and returns no Result.  A caller
\* that runs one operation at a time destroys at will, and so do the callers
\* of the archives of DestroyArchives; elsewhere the destroy counts among the
\* run's calls.
StreamDestroy ==
    /\ Sequential \/ calls < MaxCalls \/ DestroyAtWill
    /\ calls' = IF DestroyAtWill THEN calls ELSE Called
    /\ \E k \in 1 .. MaxStreams :
         /\ streams[k].pc = "flowing"
         /\ streams' = [streams EXCEPT ![k] =
                          IF streams[k].rawOpen THEN [streams[k] EXCEPT !.pc = "destroyed"]
                          ELSE FreeStream]
    /\ UNCHANGED << file, zip, reader, entries, ini, re, batch, closers, out >>

\* The raw stream of slot k emits 'end' or 'close': onEnd (reader.ts 129-137).
StreamRawEnd ==
    \E k \in 1 .. MaxStreams :
      /\ streams[k].pc \in {"flowing", "errored", "destroyed"}
      /\ streams[k].rawOpen
      /\ reader' = RawStreamEvents(reader)
      /\ streams' = [streams EXCEPT ![k] =
                       IF streams[k].pc \in {"errored", "destroyed"} THEN FreeStream
                       ELSE [streams[k] EXCEPT !.rawOpen = FALSE]]
      /\ UNCHANGED << file, zip, entries, ini, re, batch, closers, calls, out >>

\* All the data has gone through: the transforms are flushed and the stream
\* ends, or fails.
StreamFlush ==
    \E k \in 1 .. MaxStreams :
      /\ streams[k].pc = "flowing"
      /\ streams[k].outLeft = 0
      /\ ~streams[k].rawOpen
      /\ LET s == streams[k]
             F == ValidateSizeFlush(zip, entries, s)
             crcError == IF s.validateCrc32
                         THEN ValidateCrc32Flush(s, entries[s.entry].crc32) ELSE ""
         IN  IF ~s.inflateOk
             THEN /\ StreamFail(k, s, "unexpected end of file")
                  /\ UNCHANGED << zip, entries >>
             ELSE IF s.validateSize /\ F.error # ""
             THEN /\ StreamFail(k, s, F.error)
                  /\ UNCHANGED << zip, entries >>
             ELSE /\ zip' = IF s.validateSize THEN F.z ELSE zip
                  /\ entries' = IF s.validateSize THEN F.es ELSE entries
                  /\ IF crcError # "" THEN StreamFail(k, s, crcError)
                     ELSE /\ out' = Out("stream", OK_NULL, s.entry)
                          /\ streams' = [streams EXCEPT ![k] = FreeStream]
      /\ UNCHANGED << file, reader, ini, re, batch, closers, calls >>

(***************************************************************************)
(* close()                                                                 *)
(***************************************************************************)

\* A caller calls zip.close() (reader.ts 49-59): it returns at once on a
\* closed reader, waits for a timer when the counter is not 0, and goes on
\* to close otherwise.
CloseCall ==
    /\ ini.pc = "done"
    /\ MayClose
    /\ calls' = Called
    /\ IF ~reader._isOpen
       THEN /\ out' = Out("close", OK_NULL, 0)
            /\ UNCHANGED << reader, closers >>
       ELSE IF reader._readCount # 0
       THEN /\ closers < MaxClosers
            /\ closers' = closers + 1
            /\ UNCHANGED << reader, out >>
       ELSE /\ out' = Out("close", ReaderCloseResult(reader), 0)
            /\ reader' = ReaderCloseFinish(reader)
            /\ UNCHANGED closers
    /\ UNCHANGED << file, zip, entries, ini, re, batch, streams >>

\* A caller calls reader.open() (reader.ts 34-42).  Every such call counts
\* among the run's calls, whatever the archive.
OpenCall ==
    /\ ini.pc = "done"
    /\ MayCall
    /\ calls < MaxCalls
    /\ calls' = calls + 1
    /\ out' = Out("open", OK_NULL, 0)
    /\ reader' = ReaderOpen(reader)
    /\ UNCHANGED << file, zip, entries, ini, re, batch, streams, closers >>

\* The timer of a waiting close() fires (reader.ts 61-67).
CloseResume ==
    /\ closers > 0
    /\ closers' = closers - 1
    /\ out' = Out("close", ReaderCloseResult(reader), 0)
    /\ reader' = ReaderCloseFinish(reader)
    /\ UNCHANGED << file, zip, entries, ini, re, batch, streams, calls >>

Next ==
    \/ InitCall
    \/ InitEocdrRead
    \/ InitEocdlRead
    \/ InitZip64EocdrRead
    \/ InitProbeRead
    \/ InitSearchRead
    \/ ReadEntryCall
    \/ ReadEntryAtRead
    \/ ReadEntryDdRead
    \/ ReadEntrySettle
    \/ ReadEntriesCall
    \/ ReadEntriesNext
    \/ OpenReadStreamCall
    \/ OpenReadStreamLfhRead
    \/ StreamData
    \/ StreamDestroy
    \/ StreamRawEnd
    \/ StreamFlush
    \/ CloseCall
    \/ OpenCall
    \/ CloseResume

Spec == Init /\ [][Next]_vars

(***************************************************************************)
(* A second specification, for openReadStream(options): small archives     *)
(* with stored, deflated, encrypted and bzip2 entries and one with a file  *)
(* shorter than its headers state, iterated by one caller that opens each  *)
(* entry's stream with any options object.                                 *)
(***************************************************************************)

MaxOffset == 4
Tri == {"true", "false", "unset"}
OptionOffsets == {NULL} \cup (0 .. MaxOffset)

\* The options objects passed to openReadStream, and no options at all.
WideOptions ==
    {NoOptions} \cup
    { [ given |-> TRUE, decompress |-> d, decrypt |-> c, validateCrc32 |-> v,
        start |-> a, end |-> b ] :
      d \in Tri, c \in Tri, v \in Tri, a \in OptionOffsets, b \in OptionOffsets }

OptionArchives ==
    { BuildArchive(<< PlainStored(Fn(1), 3), PlainDeflated(Fn(2), 2, 3) >>, 0, 0),
      BuildArchive(<< StoredEncrypted(Fn(1), 1), DeflatedEncrypted(Fn(2), 2, 3),
                      Bzip2(Fn(3), 2, 3) >>, 0, 0),
      BuildArchive(<< PlainStored(Fn(1), 1), Overrun(Fn(2), 1, 40) >>, 0, 0) }

OptionsInit ==
    /\ file \in OptionArchives
    /\ zip = NewZip(file.size, DefaultOptions)
    /\ reader = OpenedReader
    /\ entries = << >>
    /\ ini = IdleInit
    /\ re = IdleRead
    /\ batch = IdleBatch
    /\ streams = [k \in 1 .. MaxStreams |-> FreeStream]
    /\ closers = 0
    /\ calls = 0
    /\ out = NoOut

OpenReadStreamWide == OpenReadStreamWith(WideOptions)

OptionsNext ==
    \/ InitCall
    \/ InitEocdrRead
    \/ InitProbeRead
    \/ ReadEntryCall
    \/ ReadEntryAtRead
    \/ ReadEntrySettle
    \/ OpenReadStreamWide
    \/ OpenReadStreamLfhRead
    \/ StreamData
    \/ StreamRawEnd
    \/ StreamFlush

OptionsSpec == OptionsInit /\ [][OptionsNext]_vars

(***************************************************************************)
(* A third specification, for the filename checks: archives of one stored  *)
(* file under each of a set of names, opened with every combination of     *)
(* decodeStrings, validateFilenames and strictFilenames, and iterated.     *)
(***************************************************************************)

Filenames ==
    { << "a" >>, << "a", "/", "b" >>, << "a", ".", "." >>, << ".", ".", "a" >>,
      << "/", "a" >>, << "C", ":", "a" >>, << "b", ":" >>,
      << ".", "." >>, << ".", ".", "/", "a" >>, << "a", "/", ".", "." >>,
      << "a", "/", ".", ".", "/", "b" >>,
      << "a", "\\", "b" >>, << ".", ".", "\\", "a" >>, << "\\", "a" >> }

FilenameArchives == { BuildArchive(<< PlainStored(fn, 1) >>, 0, 0) : fn \in Filenames }

FilenameOptions ==
    { [DefaultOptions EXCEPT !.decodeStrings = d, !.validateFilenames = v,
                             !.strictFilenames = t] : d, v, t \in BOOLEAN }

FilenamesInit ==
    /\ file \in FilenameArchives
    /\ zip \in {NewZip(file.size, o) : o \in FilenameOptions}
    /\ reader = OpenedReader
    /\ entries = << >>
    /\ ini = IdleInit
    /\ re = IdleRead
    /\ batch = IdleBatch
    /\ streams = [k \in 1 .. MaxStreams |-> FreeStream]
    /\ closers = 0
    /\ calls = 0
    /\ out = NoOut

FilenamesNext ==
    \/ InitCall
    \/ InitEocdrRead
    \/ InitProbeRead
    \/ ReadEntryCall
    \/ ReadEntryAtRead
    \/ ReadEntrySettle

FilenamesSpec == FilenamesInit /\ [][FilenamesNext]_vars

(***************************************************************************)
(* A fourth specification, for the footer fields: archives whose End of    *)
(* Central Directory Record states a Central Directory size and offset     *)
(* that are up to MaxSlack bytes away from where the directory is, opened  *)
(* with and without Mac support, and iterated.                             *)
(***************************************************************************)

MaxSlack == 2

\* Archive a with the EOCDR's Central Directory size and offset fields
\* (bytes 12-15 and 16-19, types.ts 253-257) holding `size` and `offset`.
StatedDirectory(a, size, offset) ==
    [a EXCEPT !.eocdr = [o \in DOMAIN a.eocdr |->
                           [a.eocdr[o] EXCEPT !.centralDirectorySize = size,
                                              !.centralDirectoryOffset = offset]]]

\* The fields as the writer stated them.
WrittenDirectory(a) == a.eocdr[CHOOSE o \in DOMAIN a.eocdr : TRUE]
Around(n) == {m \in (n - MaxSlack) .. (n + MaxSlack) : m >= 0}

FooterArchives ==
    UNION { { StatedDirectory(a, size, offset) :
                size \in Around(WrittenDirectory(a).centralDirectorySize),
                offset \in Around(WrittenDirectory(a).centralDirectoryOffset) } :
            a \in { BuildArchive(<< PlainStored(Fn(1), 2), PlainDeflated(Fn(2), 1, 3) >>, 0, c) :
                      c \in {0, 1} } }

FootersInit ==
    /\ file \in FooterArchives
    /\ zip \in {NewZip(file.size, o) : o \in ZipOptions}
    /\ reader = OpenedReader
    /\ entries = << >>
    /\ ini = IdleInit
    /\ re = IdleRead
    /\ batch = IdleBatch
    /\ streams = [k \in 1 .. MaxStreams |-> FreeStream]
    /\ closers = 0
    /\ calls = 0
    /\ out = NoOut

FootersNext ==
    \/ InitCall
    \/ InitEocdrRead
    \/ InitProbeRead
    \/ ReadEntryCall
    \/ ReadEntryAtRead
    \/ ReadEntrySettle

FootersSpec == FootersInit /\ [][FootersNext]_vars

(***************************************************************************)
(* A fifth specification, for the search of the End of Central Directory   *)
(* Record: files of up to MaxTail bytes with the EOCDR signature at up to  *)
(* two places, each followed by any comment length, opened and read.       *)
(***************************************************************************)

MaxTail == 9
MaxSignatures == 3

\* The record found at a signature: an empty archive's, with the comment
\* length n in its bytes 20-21.
EocdrRecord(n) ==
    [ diskNumber |-> 0, entryCount |-> 0, centralDirectorySize |-> 0,
      centralDirectoryOffset |-> 0, commentLength |-> n ]

\* The comment lengths tried after a signature at p of a file of `size`
\* bytes: none, the bytes that follow the record, and one byte more, as far
\* as the 16-bit field can hold them.
CommentLengths(size, p) ==
    {n \in {0, size - p - EOCDR_WITHOUT_COMMENT_SIZE, size - p} : n <= MAX_EOCDR_COMMENT_SIZE}

\* Files of `size` bytes with the signature at the offsets `at`.
EocdrFilesAt(size, at) ==
    { [BuildArchive(<< >>, 0, 0) EXCEPT !.size = size,
                                        !.eocdr = [p \in at |-> EocdrRecord(n[p])]] :
        n \in {m \in [at -> 0 .. MAX_EOCDR_COMMENT_SIZE] :
                 \A p \in at : m[p] \in CommentLengths(size, p)} }

EocdrFiles ==
    UNION { UNION { EocdrFilesAt(size, at) :
                      at \in {a \in SUBSET (0 .. size - EOCDR_WITHOUT_COMMENT_SIZE) :
                                Cardinality(a) <= MaxSignatures} } :
            size \in 0 .. MaxTail }

EocdrInit ==
    /\ file \in EocdrFiles
    /\ zip = NewZip(file.size, DefaultOptions)
    /\ reader = OpenedReader
    /\ entries = << >>
    /\ ini = IdleInit
    /\ re = IdleRead
    /\ batch = IdleBatch
    /\ streams = [k \in 1 .. MaxStreams |-> FreeStream]
    /\ closers = 0
    /\ calls = 0
    /\ out = NoOut

EocdrNext ==
    \/ InitCall
    \/ InitEocdrRead
    \/ ReadEntryCall
    \/ ReadEntrySettle

EocdrSpec == EocdrInit /\ [][EocdrNext]_vars

(***************************************************************************)
(* A sixth specification, for _recalculateEntryCount: a Zip part way       *)
(* through a Central Directory, with every entry count up to MaxCount,     *)
(* every number of entries read, and up to MaxDirectory bytes of directory *)
(* left after the cursor; the method is called once.                       *)
(***************************************************************************)

MaxCount == 3
MaxDirectory == 160

RecalculateInit ==
    /\ file = BuildArchive(<< >>, 0, 0)
    /\ \E count \in 0 .. MaxCount, left \in 0 .. MaxDirectory, mac \in BOOLEAN :
         \E read \in 0 .. count :
           zip = [NewZip(read * CDH_MIN_LENGTH + left + EOCDR_WITHOUT_COMMENT_SIZE,
                         DefaultOptions) EXCEPT
                    !.entryCount = count,
                    !.numEntriesRead = read,
                    !.centralDirectoryOffset = 0,
                    !.centralDirectorySize = read * CDH_MIN_LENGTH + left,
                    !.footerOffset = read * CDH_MIN_LENGTH + left,
                    !._entryCursor = read * CDH_MIN_LENGTH,
                    !.isMacArchive = mac,
                    !.isMaybeMacArchive = ~mac,
                    !._uncertainUncompressedSizeEntryRefs = IF mac THEN NULL_REFS ELSE {},
                    !.uncompressedSizesAreCertain = FALSE,
                    !.entryCountIsCertain = FALSE,
                    !.commentLength = 0]
    /\ reader = OpenedReader
    /\ entries = << >>
    /\ ini = [IdleInit EXCEPT !.pc = "done"]
    /\ re = IdleRead
    /\ batch = IdleBatch
    /\ streams = [k \in 1 .. MaxStreams |-> FreeStream]
    /\ closers = 0
    /\ calls = 0
    /\ out = NoOut

\* _recalculateEntryCount(numEntriesRead, _entryCursor) is called (as by
\* reader.ts 656 through _setAsMacArchive); out.n is 1 when it returns true.
RecalculateEntryCountCall ==
    /\ out.op = "none"
    /\ zip' = RecalculateEntryCount(zip, zip.numEntriesRead, zip._entryCursor)
    /\ out' = [NoOut EXCEPT
                 !.op = "_recalculateEntryCount",
                 !.n = IF RecalculateEntryCountTooLow(zip, zip.numEntriesRead, zip._entryCursor)
                       THEN 1 ELSE 0]
    /\ UNCHANGED << file, reader, entries, ini, re, batch, streams, closers, calls >>

RecalculateSpec == RecalculateInit /\ [][RecalculateEntryCountCall]_vars

(***************************************************************************)
(* Properties.                                                             *)
(***************************************************************************)

\* A call of readEntry(), by a caller or by readEntries' loop.
ReadEntryCalled == ReadEntryCall \/ (ReadEntriesNext /\ ReadEntriesMore(batch))

\* C1: readEntry() called while an earlier readEntry() on the same Zip has
\* not settled returns the re-entrancy error without reading from the reader
\* and without changing the entry cursor, the entries-read count or the Mac
\* state (nothing of the Zip, the Reader or the entries changes), and the
\* first call goes on from where it was: it still settles with its result.
C1_ReentrantReadEntryRejected ==
    [][ (ReadEntryCalled /\ zip._isReading)
        => /\ out'.fails /\ out'.error = REENTRANT
           /\ zip' = zip /\ reader' = reader /\ entries' = entries /\ re' = re
           /\ re.pc # "idle" ]_vars

\* A second call was rejected while the first one waits for its read.
C1_Witness == out.error = REENTRANT /\ out.op = "readEntry" /\ re.pc = "readAt"

\* The archive is one the Zip is meant to read with its options: nothing in
\* it is truncated, or Mac Archive Utility wrote it and Mac support is on.
WellFormed == file.real.fits \/ (file.real.mac /\ zip.supportMacArchive)

\* The number of files the writer put in the archive.
RealEntryCount == Len(file.real.names)

\* The entries handed out so far are the first ones of the directory, in
\* directory order.
InDirectoryOrder(es) ==
    /\ Len(es) <= RealEntryCount
    /\ \A i \in 1 .. Len(es) : es[i].filename = file.real.names[i]

\* readEntries() returns (its loop ends, or readEntry() returned null to it).
ReadEntriesReturns == batch.pc # "idle" /\ batch'.pc = "idle" /\ ~out'.fails

\* C2: on a well-formed open archive, the entries that readEntry() and
\* readEntries(n) return are the central directory's entries in directory
\* order with none skipped and none repeated; readEntries(n) returns at most
\* n entries; readEntries() without n returns all remaining ones; and a
\* readEntry() made once all entries are consumed returns null (and null
\* is returned only then).
C2_OrderedIteration ==
    [][ WellFormed =>
          /\ InDirectoryOrder(entries')
          /\ ReadEntriesReturns =>
                /\ out'.n = batch.got
                /\ batch.numEntries # NULL => out'.n <= batch.numEntries
                /\ batch.numEntries = NULL => Len(entries') = RealEntryCount
          /\ (ReadEntrySettle /\ re.result.value = << >>
                /\ re.result.error # NOT_OPEN_READ) =>
                /\ Len(entries) = RealEntryCount => ~re.result.fails
                /\ ~re.result.fails => Len(entries) = RealEntryCount ]_vars

\* readEntry() returns null: the iteration is exhausted.
ReadEntryReturnsNull == ReadEntrySettle /\ ~re.result.fails /\ re.result.value = << >>

\* C3: once an archive is opened, numEntriesRead <= entryCount in every
\* state, under every interleaving of readEntry, openReadStream and stream
\* events; and when readEntry returns null with the entry count certain,
\* numEntriesRead = entryCount.
C3_EntriesReadWithinCount ==
    [][ /\ ini'.pc = "done" => zip'.numEntriesRead <= zip'.entryCount
        /\ (ReadEntryReturnsNull /\ zip.entryCountIsCertain)
             => zip.numEntriesRead = zip.entryCount ]_vars

\* The archive has been decided not to be a Mac archive: init() is over, or
\* a demotion has happened, and both flags are false.
DecidedNotMac == ini.pc = "done" /\ ~zip.isMacArchive /\ ~zip.isMaybeMacArchive

\* A demotion: a step in which _setAsNotMacArchive runs (nothing else makes
\* the uncompressed sizes certain again, types.ts 1225).
Demotion == ~zip.uncompressedSizesAreCertain /\ zip'.uncompressedSizesAreCertain

\* C4: Mac-state transitions are monotone under every interleaving of
\* readEntry, openReadStream and stream events: once isMacArchive is true
\* it stays true, and once the archive is decided not-Mac (both flags false
\* after init, or a demotion) neither flag is true again.
C4_MacStateMonotone ==
    [][ /\ zip.isMacArchive => zip'.isMacArchive
        /\ (DecidedNotMac \/ Demotion)
             => (~zip'.isMacArchive /\ ~zip'.isMaybeMacArchive) ]_vars

\* A maybe-Mac archive has been promoted while a stream was flowing, and
\* entries were read afterwards.
C4_Witness ==
    /\ zip.isMacArchive
    /\ file.size < FOUR_GIB
    /\ RealEntryCount < U16_MAX
    /\ zip._uncertainUncompressedSizeEntryRefs = NULL_REFS
    /\ zip.numEntriesRead = RealEntryCount
    /\ \E k \in 1 .. MaxStreams : streams[k].expectedByteCount >= FOUR_GIB

\* A maybe-Mac archive has been demoted by openReadStream, and entries were
\* read afterwards.
C4_WitnessDemoted ==
    /\ DecidedNotMac
    /\ zip.supportMacArchive
    /\ file.real.fits
    /\ zip.numEntriesRead = RealEntryCount
    /\ RealEntryCount > 1
    /\ out.op = "readEntry"

\* C5: isMacArchive and isMaybeMacArchive are never both true, in any
\* reachable state, during init() or afterwards.
C5_NeverMacAndMaybeMac == ~(zip.isMacArchive /\ zip.isMaybeMacArchive)

\* A maybe-Mac archive has been promoted by readEntry(): its directory,
\* found where the EOCDR says, has been grown beyond 4 GiB up to the EOCDR.
C5_Witness ==
    /\ zip.isMacArchive
    /\ ~zip.isMaybeMacArchive
    /\ zip.centralDirectoryOffset < FOUR_GIB
    /\ zip.centralDirectorySize > FOUR_GIB
    /\ zip.numEntriesRead > 1

\* The archive holds exactly 65535 entries, its EOCDR says so, it has no
\* ZIP64 records, and its directory's offset and size fit their fields:
\* nothing in it is truncated.
Count65535NotTruncated ==
    /\ RealEntryCount = U16_MAX
    /\ DOMAIN file.z64l = {}
    /\ \A o \in DOMAIN file.eocdr : file.eocdr[o].entryCount = U16_MAX /\ o < U32_MAX

MacArchiveOpened == file.real.mac /\ RealEntryCount >= 1 /\ zip.supportMacArchive

\* The stream of slot s is as openReadStream() without options makes it.
DefaultStream(s) == s.validateCrc32 /\ s.decompress = IsCompressed(entries[s.entry])

\* This step ends the openReadStream call or the stream of slot k (the caller
\* does not destroy it).
StreamEnds(k) ==
    /\ streams[k].pc \in {"lfh", "flowing"}
    /\ streams'[k].pc \notin {"lfh", "flowing"}
    /\ ~StreamDestroy

\* No other openReadStream, readEntries or close call was made beside the one
\* stream (on the other archives callers run one operation at a time anyway).
OneStreamAtATime == Sequential \/ calls = 1

\* The Mac flags after this step are what the entry count alone predicts.
MacFlagsByCount ==
    /\ zip'.isMacArchive <=> RealEntryCount >= U16_MAX
    /\ zip'.isMaybeMacArchive <=> RealEntryCount < U16_MAX

\* C7: iterating a Mac Archive Utility archive of N files to exhaustion,
\* streaming each entry, yields exactly N entries, each file once and in
\* order, without error: init() succeeds, readEntry() fails only on a closed
\* reader, a stream opened without options ends without error unless the
\* reader's _createReadStream fails, and readEntry()
\* returns null only after N entries; isMacArchive is then (N >= 65535) and
\* isMaybeMacArchive is (N < 65535).  The flags are required only of archives
\* whose sizes and offsets all fit 32 bits or whose count is 65535 or more.
C7_MacArchiveIteration ==
    [][ MacArchiveOpened =>
          /\ ini'.pc # "failed"
          /\ (ReadEntrySettle /\ re.result.error # NOT_OPEN_READ) => ~re.result.fails
          /\ \A k \in 1 .. MaxStreams :
                (StreamEnds(k) /\ DefaultStream(streams[k]) /\ OneStreamAtATime)
                    => (~out'.fails \/ out'.error = NO_DESCRIPTOR)
          /\ ReadEntryReturnsNull =>
                /\ Len(entries) = RealEntryCount
                /\ InDirectoryOrder(entries)
                /\ (file.real.sizesFit \/ RealEntryCount >= U16_MAX) => MacFlagsByCount
      ]_vars

\* The End of Central Directory records of the archive that give its values:
\* the ZIP64 EOCDR when the EOCDR asks for it, else the EOCDR.
FooterRecords ==
    IF zip.isZip64 THEN {file.z64r[o] : o \in DOMAIN file.z64r}
    ELSE {file.eocdr[o] : o \in DOMAIN file.eocdr}

\* C8: with supportMacArchive = false, in every reachable state both Mac flags
\* are false, every certainty flag (entry count, Central Directory size,
\* compressed sizes, uncompressed sizes, and uncompressedSizeIsCertain of each
\* entry returned) is true, and once the archive is open the Central
\* Directory's offset and size and the entry count are those of the EOCDR or
\* ZIP64 EOCDR.
C8_NoMacSupportMeansNoMacState ==
    ~zip.supportMacArchive =>
       /\ ~zip.isMacArchive /\ ~zip.isMaybeMacArchive
       /\ zip.entryCountIsCertain /\ zip.centralDirectorySizeIsCertain
       /\ zip.compressedSizesAreCertain /\ zip.uncompressedSizesAreCertain
       /\ \A i \in DOMAIN entries : entries[i].uncompressedSizeIsCertain
       /\ ini.pc = "done" =>
             \E r \in FooterRecords :
                /\ zip.centralDirectoryOffset = r.centralDirectoryOffset
                /\ zip.centralDirectorySize = r.centralDirectorySize
                /\ zip.entryCount = r.entryCount

\* A truncated Mac archive opened without Mac support, an entry of which has
\* been read and streamed.
C8_Witness ==
    /\ ~zip.supportMacArchive
    /\ file.real.mac /\ ~file.real.fits
    /\ entries # << >>
    /\ zip.entryCount < RealEntryCount
    /\ out.op = "stream"

\* The same for a ZIP64 archive read to its end.
C8_WitnessZip64 ==
    /\ ~zip.supportMacArchive
    /\ zip.isZip64
    /\ zip.numEntriesRead = RealEntryCount /\ RealEntryCount > 1

\* The read() calls in flight and the streams created by createReadStream
\* that have not ended, told from where each operation stands and not from
\* the Reader's counter.  (The empty stream of a zero-length request reads
\* nothing and is not counted: reader.ts 109-116.)
ReadsInFlight ==
    (IF ini.pc \in InitReadPcs THEN 1 ELSE 0)
    + (IF re.pc \in {"readAt", "dd"} THEN 1 ELSE 0)
    + Cardinality({k \in 1 .. MaxStreams : streams[k].pc = "lfh"})
    + Cardinality({k \in 1 .. MaxStreams : streams[k].rawOpen})

\* C9: when a read() is still in flight or a stream is still outstanding as
\* close() resumes after its one yield, close() returns "Cannot close while
\* reading in progress", the reader stays open and is left as it was (_close()
\* is not called), and the reads and streams in progress are left as they are.
C9_CloseFailsWhileReading ==
    [][ (CloseResume /\ ReadsInFlight > 0) =>
          /\ out'.op = "close" /\ out'.fails /\ out'.error = CANNOT_CLOSE
          /\ reader._isOpen /\ reader'._isOpen
          /\ reader'.closeCalls = reader.closeCalls
          /\ reader' = reader
          /\ UNCHANGED << file, zip, entries, ini, re, batch, streams >>
          /\ ReadsInFlight' = ReadsInFlight ]_vars

\* close() has just failed so while a readEntry's read is in flight and a
\* stream is flowing.
C9_Witness ==
    /\ out.op = "close" /\ out.error = CANNOT_CLOSE
    /\ reader._isOpen /\ reader.closeCalls = 0
    /\ re.pc \in {"readAt", "dd"}
    /\ \E k \in 1 .. MaxStreams : streams[k].pc = "flowing" /\ streams[k].rawOpen

\* C10: the reader is never closed while reads are active: whenever isOpen is
\* false no read() is in flight and no stream is outstanding, and _close() is
\* only called when the counter of outstanding reads is 0 (and nothing is
\* outstanding).
C10_NeverClosedWhileReading ==
    /\ [](~reader._isOpen => (ReadsInFlight = 0 /\ reader._readCount = 0))
    /\ [][ reader'.closeCalls # reader.closeCalls =>
              (reader._readCount = 0 /\ ReadsInFlight = 0) ]_vars

\* The reader has been closed after reads and a stream, and a later call has
\* found it closed.
C10_Witness ==
    /\ ~reader._isOpen /\ reader.closeCalls = 1
    /\ zip.numEntriesRead > 0
    /\ out.fails /\ out.error \in {NOT_OPEN_READ, NOT_OPEN_STREAM}

\* No read() is in flight and every stream opened has ended or been destroyed
\* by its caller.
AllReadsAndStreamsOver ==
    /\ ini.pc \notin InitReadPcs
    /\ re.pc \notin {"readAt", "dd"}
    /\ \A k \in 1 .. MaxStreams : streams[k].pc \in {"free", "destroyed"}

\* This step is a close() returning, called on a reader that is still open.
CloseReturnsOnOpenReader ==
    /\ reader._isOpen
    /\ (CloseCall /\ reader._readCount = 0) \/ CloseResume

\* C11: once no read is in flight and every stream opened has ended or been
\* destroyed, close() succeeds and leaves isOpen false; a close() on a closed
\* reader returns ok and changes nothing (_close() is not called again); an
\* open() on an open reader returns ok and changes nothing (_open() is not
\* called again).
C11_CloseAndOpenIdempotent ==
    [][ /\ (CloseReturnsOnOpenReader /\ AllReadsAndStreamsOver) =>
              /\ out'.op = "close" /\ ~out'.fails
              /\ ~reader'._isOpen
              /\ reader'.closeCalls = reader.closeCalls + 1
        /\ (CloseCall /\ ~reader._isOpen) =>
              /\ out'.op = "close" /\ ~out'.fails
              /\ reader' = reader
        /\ (OpenCall /\ reader._isOpen) =>
              /\ out'.op = "open" /\ ~out'.fails
              /\ reader' = reader ]_vars

\* The slots of streams that this step changes.
SlotsChanged == { k \in 1 .. MaxStreams : streams'[k] # streams[k] }

\* C12: destroying an entry's stream never closes the file descriptor and
\* never affects another stream: the destroy changes the destroyed stream's
\* slot only, the raw stream's later 'close' changes that slot and the counter
\* only, and an open reader always has its descriptor, so that streams opened
\* concurrently or later read on to their end.
C12_DestroyLeavesFdAndOtherStreams ==
    /\ [](reader._isOpen => reader.fd)
    /\ [][ /\ StreamDestroy =>
                /\ reader' = reader
                /\ zip' = zip /\ entries' = entries
                /\ Cardinality(SlotsChanged) = 1
           /\ StreamRawEnd =>
                /\ reader' = ReaderCountDown(reader)
                /\ Cardinality(SlotsChanged) = 1 ]_vars

\* A stream has been destroyed and its raw stream has not closed yet, while
\* another stream, still flowing, has received all its bytes.
C12_Witness ==
    /\ reader._isOpen /\ reader.fd
    /\ \E j, k \in 1 .. MaxStreams :
         /\ streams[j].pc = "destroyed"
         /\ streams[k].pc = "flowing" /\ ~streams[k].rawOpen /\ streams[k].outLeft = 0
         /\ streams[k].end > streams[k].start

DecryptOnly == [NoOptions EXCEPT !.given = TRUE, !.decrypt = "true"]

\* C14: openReadStream({ decrypt: true }) returns the error "Decryption is not
\* supported" for every entry, encrypted or not, and opens no stream: no
\* read is started and no slot is taken.
C14_DecryptAlwaysRejected ==
    [][ OpenReadStreamWith({DecryptOnly}) =>
          /\ out'.op = "openReadStream"
          /\ out'.error = "Decryption is not supported"
          /\ streams' = streams
          /\ reader' = reader ]_vars

\* The options object {}.
EmptyOptions == [NoOptions EXCEPT !.given = TRUE]

\* This step is openReadStream(o) on entry i starting to read the Local File
\* Header, with the flags and the range of d.
OpensWith(i, d) ==
    \E k \in 1 .. MaxStreams :
      /\ streams[k].pc = "free" /\ streams'[k].pc = "lfh"
      /\ streams'[k].entry = i
      /\ streams'[k].decompress = d.decompress
      /\ streams'[k].validateCrc32 = d.validateCrc32
      /\ streams'[k].start = d.start /\ streams'[k].end = d.end

\* What the defaults make of options o for an entry: every omitted option
\* takes its default.
WithDefaults(entry, o) ==
    LET decompress == IF o.given /\ o.decompress # "unset"
                      THEN o.decompress = "true" /\ IsCompressed(entry)
                      ELSE IsCompressed(entry)
    IN  [ decompress |-> decompress,
          validateCrc32 |-> IF o.given /\ o.validateCrc32 # "unset"
                            THEN o.validateCrc32 = "true" ELSE ~decompress,
          start |-> IF o.given /\ o.start # NULL THEN o.start ELSE 0,
          end |-> IF o.given /\ o.end # NULL THEN o.end ELSE entry.compressedSize ]

\* C15: every option omitted from openReadStream takes its default
\* (decompress = isCompressed(), decrypt = isEncrypted(), validateCrc32 = not
\* decompress, start = 0, end = compressedSize), so that openReadStream()
\* and openReadStream({}) reject the same entries with the same error and
\* start the same stream with the same transforms.
C15_OmittedOptionsTakeDefaults ==
    [][ \A i \in DOMAIN entries :
          (out.op = "readEntry" /\ out.entry = i) =>
             /\ \A o \in WideOptions :
                  (OpenReadStreamWith({o}) /\ streams' # streams)
                      => OpensWith(i, WithDefaults(entries[i], o))
             /\ OpenReadStreamWith({EmptyOptions}) =>
                  LET d == ResolveOptions(entries[i], NoOptions)
                  IN  IF d.error # ""
                      THEN out'.error = d.error /\ streams' = streams
                      ELSE OpensWith(i, d) ]_vars

\* Options objects with decompress, decrypt and validateCrc32 all false,
\* start and end given or not.
RawOptions ==
    { o \in WideOptions :
        /\ o.given
        /\ o.decompress = "false" /\ o.decrypt = "false" /\ o.validateCrc32 = "false" }

\* Where the file data of entry i really starts: the i-th file data section.
RealDataOffset(i) ==
    CHOOSE o \in DOMAIN file.data :
       Cardinality({p \in DOMAIN file.data : p < o}) = i - 1

\* The range that options o ask for of an entry.
RangeStart(o) == IF o.start = NULL THEN 0 ELSE o.start
RangeEnd(entry, o) == IF o.end = NULL THEN entry.compressedSize ELSE o.end

\* C16: with decompress, decrypt and validateCrc32 all false and
\* 0 <= start <= end <= compressedSize, openReadStream on any entry is not
\* rejected for its options; it asks the reader for one stream, at the real
\* offset of the file data plus start and of end - start bytes; the stream has
\* no transform, delivers no more than these bytes, and ends without error.
C16_RawRangeIsByteSlice ==
    [][ \A i \in DOMAIN entries, k \in 1 .. MaxStreams :
          /\ \A o \in RawOptions :
               (/\ out.op = "readEntry" /\ out.entry = i
                /\ RangeStart(o) <= RangeEnd(entries[i], o)
                /\ RangeEnd(entries[i], o) <= entries[i].compressedSize
                /\ OpenReadStreamWith({o}))
                   => OpensWith(i, [ decompress |-> FALSE, validateCrc32 |-> FALSE,
                                     start |-> RangeStart(o),
                                     end |-> RangeEnd(entries[i], o) ])
          /\ (/\ OpenReadStreamLfhRead
              /\ streams[k].pc = "lfh" /\ streams'[k].pc = "flowing"
              /\ streams[k].entry = i
              /\ ~streams[k].decompress /\ ~streams[k].validateCrc32)
                 => /\ streams'[k].rawStart = RealDataOffset(i) + streams[k].start
                    /\ streams'[k].rawLength = streams[k].end - streams[k].start
                    /\ streams'[k].outLeft = streams'[k].rawLength
                    /\ ~streams'[k].validateSize
                    /\ Cardinality(SlotsChanged) = 1
          /\ (/\ StreamData \/ StreamFlush
              /\ streams[k].pc = "flowing" /\ streams'[k] # streams[k]
              /\ streams[k].entry = i
              /\ ~streams[k].decompress /\ ~streams[k].validateCrc32)
                 => /\ streams'[k].pc = "flowing" => streams'[k].outLeft < streams[k].outLeft
                    /\ streams'[k].pc # "flowing" => (out'.op = "stream" /\ ~out'.fails)
      ]_vars

\* A stream without transforms of the bytes [start, end) of an entry's file
\* data, with 0 < start < end, has delivered all its bytes.
C16_Witness ==
    \E k \in 1 .. MaxStreams :
      /\ streams[k].pc = "flowing"
      /\ ~streams[k].decompress /\ ~streams[k].validateCrc32
      /\ 0 < streams[k].start /\ streams[k].start < streams[k].end
      /\ streams[k].rawStart = RealDataOffset(streams[k].entry) + streams[k].start
      /\ streams[k].outLeft = 0 /\ ~streams[k].rawOpen

\* C17: every entry returned by readEntry() has a fileHeaderOffset that is a
\* number with fileHeaderOffset + 30 <= footerOffset (30 being the length of
\* a Local File Header), and whenever openReadStream() succeeds on an entry,
\* fileDataOffset + compressedSize <= footerOffset, entries of compressed
\* size 0 and enlarged Mac entries included.
C17_EntryOffsetsWithinFooter ==
    /\ [](\A i \in DOMAIN entries :
            /\ entries[i].fileHeaderOffset # NULL
            /\ entries[i].fileHeaderOffset + LFH_LENGTH <= zip.footerOffset)
    /\ [][ \A k \in 1 .. MaxStreams :
             (OpenReadStreamLfhRead /\ streams[k].pc = "lfh" /\ streams'[k].pc = "flowing")
                => entries'[streams[k].entry].fileDataOffset
                     + entries'[streams[k].entry].compressedSize <= zip'.footerOffset ]_vars

\* A name has a segment '..' between slashes or the ends of the name.
HasDotDotSegment(fn) ==
    \E i \in 1 .. Len(fn) - 1 :
       /\ fn[i] = "." /\ fn[i + 1] = "."
       /\ (i = 1 \/ fn[i - 1] = "/")
       /\ (i + 1 = Len(fn) \/ fn[i + 2] = "/")

\* A name is an absolute path: a leading '/' or a drive prefix.
IsAbsolutePath(fn) ==
    \/ Len(fn) >= 1 /\ fn[1] = "/"
    \/ Len(fn) >= 2 /\ fn[1] \in {Alphabet[i] : i \in DOMAIN Alphabet} \cup {"C"} /\ fn[2] = ":"

HasBackslash(fn) == \E i \in 1 .. Len(fn) : fn[i] = "\\"

\* The name with '/' for every backslash.
Slashed(fn) == [i \in 1 .. Len(fn) |-> IF fn[i] = "\\" THEN "/" ELSE fn[i]]

\* A name the filename checks are to reject, as the archive carries it.
UnsafeName(fn) ==
    IF zip.strictFilenames
    THEN HasBackslash(fn) \/ IsAbsolutePath(fn) \/ HasDotDotSegment(fn)
    ELSE IsAbsolutePath(Slashed(fn)) \/ HasDotDotSegment(Slashed(fn))

\* C18: with validateFilenames enabled, whatever decodeStrings is, readEntry()
\* never returns an entry whose filename is an absolute path, has a segment
\* '..' or, with strictFilenames, has a backslash, and returns an error for
\* such an entry instead; with strictFilenames disabled the backslashes are
\* turned into '/' before the other checks.
C18_UnsafeFilenamesRejected ==
    /\ [](zip.validateFilenames =>
            \A i \in DOMAIN entries :
             (out.op = "readEntry" /\ ~out.fails /\ out.entry = i) =>
               /\ ~IsAbsolutePath(entries[i].filename)
               /\ ~HasDotDotSegment(entries[i].filename)
               /\ zip.strictFilenames => ~HasBackslash(entries[i].filename)
               /\ ~UnsafeName(file.real.names[i]))
    /\ [][ (/\ ReadEntrySettle
            /\ zip.validateFilenames
            /\ re.result.error # NOT_OPEN_READ
            /\ zip.numEntriesRead < Len(file.real.names)
            /\ UnsafeName(file.real.names[zip.numEntriesRead + 1]))
              => out'.fails ]_vars

\* This step is the Local File Header read of openReadStream() on entry i
\* returning; LfhRejected: the header read or its validation failed.
LfhReadOf(i) ==
    /\ OpenReadStreamLfhRead
    /\ \E k \in 1 .. MaxStreams :
         streams[k].pc = "lfh" /\ streams[k].entry = i /\ streams'[k] # streams[k]
LfhRejected ==
    /\ out'.op = "openReadStream" /\ out'.fails
    /\ out'.error \notin {NO_DESCRIPTOR, NOT_OPEN_STREAM}

\* C19: an entry's fileDataOffset is null when readEntry() returns it and
\* stays null until an openReadStream() on that entry has read and validated
\* its Local File Header; an openReadStream() whose validation fails leaves
\* it null.
C19_FileDataOffsetNullUntilValidated ==
    [][ /\ \A i \in DOMAIN entries' :
             (ReadEntrySettle /\ re.owner = "client" /\ ~out'.fails /\ out'.entry = i)
                => entries'[i].fileDataOffset = NULL
        /\ \A i \in DOMAIN entries :
             /\ (entries[i].fileDataOffset = NULL /\ entries'[i].fileDataOffset # NULL)
                   => (LfhReadOf(i) /\ ~LfhRejected)
             /\ (entries[i].fileDataOffset = NULL /\ LfhReadOf(i) /\ LfhRejected)
                   => entries'[i].fileDataOffset = NULL ]_vars

\* C20: for every archive that opens successfully (init() has returned OK),
\* in every reachable state the Central Directory lies before the footer and
\* the footer within the file:
\* 0 <= centralDirectoryOffset <= centralDirectoryOffset + centralDirectorySize
\*   <= footerOffset <= size.
C20_DirectoryWithinFooterWithinFile ==
    ini.pc = "done"
       => /\ 0 <= zip.centralDirectoryOffset
          /\ zip.centralDirectoryOffset <= zip.centralDirectoryOffset + zip.centralDirectorySize
          /\ zip.centralDirectoryOffset + zip.centralDirectorySize <= zip.footerOffset
          /\ zip.footerOffset <= zip.size

\* C21: after init has finished, every certainty flag is monotone under any
\* interleaving of readEntry, openReadStream and stream events:
\* entryCountIsCertain, centralDirectorySizeIsCertain,
\* compressedSizesAreCertain, uncompressedSizesAreCertain and each returned
\* entry's uncompressedSizeIsCertain may go from false to true but never from
\* true to false.
C21_CertaintyFlagsMonotone ==
    [][ ini.pc = "done"
        => /\ zip.entryCountIsCertain => zip'.entryCountIsCertain
           /\ zip.centralDirectorySizeIsCertain => zip'.centralDirectorySizeIsCertain
           /\ zip.compressedSizesAreCertain => zip'.compressedSizesAreCertain
           /\ zip.uncompressedSizesAreCertain => zip'.uncompressedSizesAreCertain
           /\ \A i \in DOMAIN entries :
                 entries[i].uncompressedSizeIsCertain
                    => (i \in DOMAIN entries' /\ entries'[i].uncompressedSizeIsCertain) ]_vars

\* A deflated entry's uncompressed size of 4 GiB or more, which no header
\* field can hold, has been learnt from its stream and made certain, after
\* the entry count and the directory size had become certain as well.
C21_Witness ==
    /\ ini.pc = "done"
    /\ zip.entryCountIsCertain /\ zip.centralDirectorySizeIsCertain
    /\ zip.numEntriesRead >= 1
    /\ \E i \in DOMAIN entries :
          /\ entries[i].compressionMethod = 8
          /\ entries[i].uncompressedSize >= FOUR_GIB
          /\ entries[i].uncompressedSizeIsCertain

\* The set of entries of uncertain uncompressed size exists (is not null).
UncertainSetExists == zip._uncertainUncompressedSizeEntryRefs # NULL_REFS

\* C22: after init, the set of uncertain-uncompressed-size entries exists
\* exactly while the archive is maybe-Mac; in the step that promotes the
\* archive to Mac or demotes it to not-Mac, isMaybeMacArchive becomes false,
\* the set becomes null and every entry that was in it has its _ref cleared
\* (so that no entry holds a _ref once the set is null); the set is drained
\* once and never created again.
C22_UncertainSetWhileMaybeMac ==
    /\ [](ini.pc = "done"
            => /\ UncertainSetExists <=> zip.isMaybeMacArchive
               /\ ~UncertainSetExists => \A i \in DOMAIN entries : ~entries[i]._ref)
    /\ [][ ini.pc = "done"
            => /\ ~UncertainSetExists => ~UncertainSetExists'
               /\ (UncertainSetExists /\ ~UncertainSetExists')
                    => /\ ~zip'.isMaybeMacArchive
                       /\ \A i \in zip._uncertainUncompressedSizeEntryRefs :
                             ~entries'[i]._ref ]_vars

\* A maybe-Mac archive has been promoted by the stream of a registered
\* entry, which turned out to be 4 GiB longer than stated: the set is null
\* and the entry, still of uncertain size, has lost its _ref.
C22_Witness ==
    /\ ini.pc = "done"
    /\ file.size < FOUR_GIB
    /\ zip.isMacArchive /\ ~zip.isMaybeMacArchive
    /\ ~UncertainSetExists
    /\ \E i \in DOMAIN entries :
          /\ entries[i].compressionMethod = 8
          /\ entries[i].uncompressedSize >= FOUR_GIB
          /\ ~entries[i].uncompressedSizeIsCertain
          /\ ~entries[i]._ref

\* C23: whenever readEntry returns an error, the entry cursor and the
\* entries-read count are what they were before the call, so that the next
\* readEntry attempts the same Central Directory File Header again.  The
\* cursor and the count change in no step but the last synchronous stretch
\* of a _readEntry that returns an entry; a step in which a readEntry comes
\* to return an error leaves them as they are, and so does the settling.
C23_FailedReadEntryKeepsCursor ==
    [][ ini.pc = "done"
        => /\ (zip'._entryCursor # zip._entryCursor
                 \/ zip'.numEntriesRead # zip.numEntriesRead)
                => (re.pc # "settle" /\ re'.pc = "settle" /\ ~re'.result.fails
                      /\ re'.result.value # << >>)
           /\ (ReadEntrySettle /\ re.result.fails)
                => (out'.fails \/ re.owner # "client") ]_vars

\* readEntry has read a Central Directory File Header and returned an error
\* for it (not that of its guard, nor that of a closed reader): the cursor
\* is still at that header and the header is not counted.
C23_Witness ==
    /\ out.op = "readEntry" /\ out.fails
    /\ out.error \notin {REENTRANT, NOT_OPEN_READ}
    /\ re.pc = "idle"
    /\ zip._entryCursor \in DOMAIN file.cdh
    /\ zip.numEntriesRead = 0
    /\ zip.entryCount >= 1

\* The offsets the claim speaks of: those inside the last
\* min(size, 22 + 65535) bytes of the file where the signature is found and
\* the 16-bit field 20 bytes further equals size - p - 22.
EocdrCandidates ==
    LET full == EOCDR_WITHOUT_COMMENT_SIZE + MAX_EOCDR_COMMENT_SIZE
        window == IF file.size < full THEN file.size ELSE full
    IN  { p \in DOMAIN file.eocdr :
            /\ p >= file.size - window
            /\ p + EOCDR_WITHOUT_COMMENT_SIZE <= file.size
            /\ file.eocdr[p].commentLength = file.size - p - EOCDR_WITHOUT_COMMENT_SIZE }

EOCDR_NOT_FOUND == "End of Central Directory Record not found"

\* C24: the EOCDR locator sets footerOffset to the greatest offset p inside
\* the last min(size, 22 + 65535) bytes of the file at which the signature is
\* found and the 16-bit field at p + 20 equals size - p - 22; init fails with
\* "End of Central Directory Record not found" exactly when there is no such
\* p (as when size < 22).
C24_EocdrLocatorTakesLastValidCandidate ==
    [][ (InitCall \/ InitEocdrRead)
           => IF EocdrCandidates = {}
              THEN (InitEocdrRead \/ ini'.pc = "failed")
                      => (ini'.pc = "failed" /\ ini'.error = EOCDR_NOT_FOUND)
              ELSE /\ ini'.error # EOCDR_NOT_FOUND
                   /\ InitEocdrRead
                        => /\ zip'.footerOffset \in EocdrCandidates
                           /\ \A p \in EocdrCandidates : p <= zip'.footerOffset ]_vars

\* The record has been found where an earlier signature, and a later one
\* whose comment length does not reach the end of the file, had to be passed
\* over.
C24_Witness ==
    /\ ini.pc = "done"
    /\ \E p, q \in DOMAIN file.eocdr :
          /\ p < zip.footerOffset /\ zip.footerOffset < q
          /\ Cardinality(EocdrCandidates) = 1

\* The Mac state of a Zip: the two flags and the four certainty flags.
MacState(z) ==
    << z.isMacArchive, z.isMaybeMacArchive, z.entryCountIsCertain,
       z.centralDirectorySizeIsCertain, z.compressedSizesAreCertain,
       z.uncompressedSizesAreCertain >>

\* The iteration state of a Zip: the entry cursor and the entries-read count.
IterationState(z) == << z._entryCursor, z.numEntriesRead >>

\* A step of a readEntry() call that holds the re-entrancy guard: the call
\* itself, by a caller or by readEntries, or the return of one of its reads.
GuardedReadEntryStep ==
    /\ ReadEntryCall \/ ReadEntriesNext \/ ReadEntryAtRead \/ ReadEntryDdRead
    /\ zip'._isReading

\* openReadStream's check of the Local File Header demotes a maybe-Mac
\* archive (reader.ts 566-569).
DemotionByOpenReadStream ==
    /\ OpenReadStreamLfhRead
    /\ zip.isMaybeMacArchive
    /\ MacState(zip') = << FALSE, FALSE, TRUE, TRUE, TRUE, TRUE >>

\* A stream that gets more bytes than the entry states promotes a maybe-Mac
\* archive (reader.ts 639-656).
PromotionByStream ==
    /\ StreamData
    /\ zip.isMaybeMacArchive
    /\ zip'.isMacArchive /\ ~zip'.isMaybeMacArchive
    /\ zip'.centralDirectorySizeIsCertain
    /\ zip.entryCountIsCertain => zip'.entryCountIsCertain
    /\ zip'.compressedSizesAreCertain = zip.compressedSizesAreCertain
    /\ zip'.uncompressedSizesAreCertain = zip.uncompressedSizesAreCertain

\* C25 as stated: the entry cursor, the entries-read counter and the Mac
\* state (isMacArchive, isMaybeMacArchive and the certainty flags) change
\* only inside a readEntry() call that holds the re-entrancy guard; no
\* openReadStream call and no stream event changes any of them.
C25_AsStated ==
    [][ (ini.pc = "done"
          /\ (IterationState(zip') # IterationState(zip) \/ MacState(zip') # MacState(zip)))
        => GuardedReadEntryStep ]_vars

\* C25, amended: the entry cursor and the entries-read counter change only
\* inside a readEntry() call that holds the guard; the Mac state changes
\* there, and besides only by a demotion in openReadStream or a promotion in
\* a stream's transform, which leave the cursor and the counter alone.
C25_CursorUnderGuardMacStateAlsoByStreams ==
    [][ ini.pc = "done"
        => /\ IterationState(zip') # IterationState(zip) => GuardedReadEntryStep
           /\ MacState(zip') # MacState(zip)
                => (GuardedReadEntryStep \/ DemotionByOpenReadStream \/ PromotionByStream) ]_vars

\* A maybe-Mac archive has been promoted by a stream while a readEntry()
\* call was waiting for a read.
C25_Witness ==
    /\ ini.pc = "done"
    /\ file.size < FOUR_GIB
    /\ zip.isMacArchive
    /\ re.pc \in {"readAt", "dd"}
    /\ \E k \in 1 .. MaxStreams :
          /\ streams[k].pc = "flowing"
          /\ streams[k].expectedByteCount >= FOUR_GIB

\* C26: after a ZIP64 footer is parsed, footerOffset is the offset of the
\* ZIP64 EOCDR whenever that record (its 12-byte prefix plus the
\* size-of-record value) ends exactly where the ZIP64 EOCDL begins, and is
\* the offset of the ZIP64 EOCDL otherwise.
C26_Zip64FooterOffset ==
    [][ (InitZip64EocdrRead /\ ini'.pc # "failed")
        => LET zip64EocdlOffset == zip.footerOffset - ZIP64_EOCDL_SIZE
               zip64EocdrOffset == ini.offset
               recordEnd == zip64EocdrOffset + ZIP64_EOCDR_PREFIX
                              + file.z64r[zip64EocdrOffset].zip64EocdrSize
           IN  zip'.footerOffset = IF recordEnd = zip64EocdlOffset
                                   THEN zip64EocdrOffset
                                   ELSE zip64EocdlOffset ]_vars

\* What is left when _recalculateEntryCount is called with the entries read
\* and the entry cursor: entries, and bytes of Central Directory.
EntriesLeft == zip.entryCount - zip.numEntriesRead
DirectoryLeft == zip.centralDirectoryOffset + zip.centralDirectorySize - zip._entryCursor

\* The entry count is impossibly low for the directory left.
ImpossiblyLow ==
    EntriesLeft * (IF zip.isMacArchive THEN CDH_MAX_LENGTH_MAC ELSE CDH_MAX_LENGTH)
       < DirectoryLeft

\* C27: whenever _recalculateEntryCount finds the entry count impossibly low
\* for the Central Directory left, it raises it by the smallest positive
\* multiple of 65536 after which the entries left, each at most
\* CDH_MAX_LENGTH_MAC bytes long, can fill the directory left, whatever the
\* shortfall, and returns true; when the count is not impossibly low it
\* changes nothing and returns false.
C27_EntryCountRaisedBySmallestMultiple ==
    [][ RecalculateEntryCountCall
        => IF ImpossiblyLow
           THEN /\ out'.n = 1
                /\ \E k \in 1 .. MaxDirectory :
                     /\ zip'.entryCount = zip.entryCount + k * U16_RANGE
                     /\ (EntriesLeft + k * U16_RANGE) * CDH_MAX_LENGTH_MAC >= DirectoryLeft
                     /\ (EntriesLeft + (k - 1) * U16_RANGE) * CDH_MAX_LENGTH_MAC < DirectoryLeft
           ELSE zip' = zip /\ out'.n = 0 ]_vars

\* What the probe of the stated offset reads, and the record that states it.
ProbeResult == ReadEntryAt(file, zip.footerOffset, ini.offset)
StatedEocdr == file.eocdr[zip.footerOffset]

\* The probe finds, at the offset the EOCDR states, a Central Directory File
\* Header that does not match the first-entry Mac signature.
ProbeFindsNonMacHeader ==
    /\ ini.pc = "probe"
    /\ ~zip.isMacArchive
    /\ ini.offset = StatedEocdr.centralDirectoryOffset
    /\ ~ProbeResult.fails
    /\ ProbeResult.value # << >>
    /\ ~FirstEntryMaybeMac(ProbeResult.value[1])

\* The Zip is that of an archive that is not, and may not be, a Mac archive.
PlainlyNotMac(z) ==
    /\ ~z.isMacArchive /\ ~z.isMaybeMacArchive
    /\ z.entryCountIsCertain /\ z.centralDirectorySizeIsCertain
    /\ z.compressedSizesAreCertain /\ z.uncompressedSizesAreCertain

\* A readEntry() call that gets past the guard and finds the cached entry.
ReadEntryTakesCached ==
    /\ ReadEntryCall \/ ReadEntriesNext
    /\ ~zip._isReading /\ zip'._isReading
    /\ zip._firstEntryProps # << >>

\* init's part of C28: the probe that finds such a header fails init, or
\* leaves the archive plainly not Mac, the fields as the EOCDR states them
\* and the entry cached; and an archive that is neither Mac nor maybe-Mac
\* after init stays so.
ProbeLeavesArchiveNotMac ==
    /\ (InitProbeRead /\ ProbeFindsNonMacHeader)
         => \/ ini'.pc = "failed"
            \/ /\ ini'.pc = "done"
               /\ PlainlyNotMac(zip')
               /\ zip'.centralDirectoryOffset = StatedEocdr.centralDirectoryOffset
               /\ zip'.centralDirectorySize = StatedEocdr.centralDirectorySize
               /\ zip'.entryCount = StatedEocdr.entryCount
               /\ zip'._firstEntryProps = ProbeResult.value
    /\ (ini.pc = "done" /\ ~zip.isMacArchive /\ ~zip.isMaybeMacArchive)
         => (~zip'.isMacArchive /\ ~zip'.isMaybeMacArchive)

\* The call returns the cached entry: no read is issued, the promise is
\* ready to settle with a new Entry made of the cached properties, and the
\* cursor is at the end of the cached header.
ReturnsCachedEntry ==
    /\ re'.pc = "settle"
    /\ reader' = reader
    /\ zip'._firstEntryProps = << >>
    /\ ~re'.result.fails
    /\ re'.result.value = << Len(entries) + 1 >>
    /\ LET e == entries'[Len(entries) + 1]
           p == zip._firstEntryProps[1]
       IN  /\ e.fileHeaderOffset = p.fileHeaderOffset
           /\ e.compressedSize = p.compressedSize
           /\ e.crc32 = p.crc32
           /\ zip'._entryCursor = p.entryEnd

\* The call returns the error that validating the cached entry gives: no
\* read is issued, no Entry is made, and the cursor stays where it was.
ReturnsCachedEntrysError ==
    /\ re'.pc = "settle"
    /\ reader' = reader
    /\ zip'._firstEntryProps = << >>
    /\ re'.result.fails
    /\ re'.result.error = ValidateAndDecodeEntry(zip, zip._firstEntryProps[1]).error
    /\ entries' = entries
    /\ zip'._entryCursor = zip._entryCursor

\* C28 as stated: if the anchor reaches the probe of the stated offset
\* without the sizes and the count having proven the archive Mac, and the
\* Central Directory File Header found there does not match the first-entry
\* Mac signature, the archive is never treated as Mac: init fails, or it
\* leaves isMacArchive and isMaybeMacArchive false, every certainty flag
\* true, and the directory's offset and size and the entry count as the
\* EOCDR states them; and the first readEntry returns that cached entry
\* without reading it again.
C28_AsStated ==
    [][ /\ ProbeLeavesArchiveNotMac
        /\ (ReadEntryTakesCached /\ PlainlyNotMac(zip)) => ReturnsCachedEntry ]_vars

\* C28, amended: as stated, but the first readEntry, which does not read the
\* header again, returns the cached entry or the error that validating it
\* gives.
C28_NonMacFirstEntryIsNeverMac ==
    [][ /\ ProbeLeavesArchiveNotMac
        /\ (ReadEntryTakesCached /\ PlainlyNotMac(zip))
             => (ReturnsCachedEntry \/ ReturnsCachedEntrysError) ]_vars

\* With Mac support on, the first readEntry of an archive whose first header
\* does not look like Mac Archive Utility's has taken the entry from the
\* cache that the probe left, and is about to return the error of its
\* validation.
C28_Witness ==
    /\ ini.pc = "done"
    /\ zip.supportMacArchive
    /\ PlainlyNotMac(zip)
    /\ out.op = "none"
    /\ re.pc = "settle" /\ re.result.fails
    /\ zip._firstEntryProps = << >>
    /\ zip.numEntriesRead = 0
    /\ ~FirstEntryMaybeMac(ReadEntryAt(file, zip.footerOffset, zip.centralDirectoryOffset).value[1])

\* The same, the entry being valid: it has been returned.
C28_WitnessReturned ==
    /\ ini.pc = "done"
    /\ zip.supportMacArchive
    /\ PlainlyNotMac(zip)
    /\ zip.numEntriesRead = 1
    /\ out.op = "readEntry" /\ ~out.fails /\ out.entry = 1
    /\ ~FirstEntryMaybeMac(ReadEntryAt(file, zip.footerOffset, zip.centralDirectoryOffset).value[1])

\* The Central Directory File Header at the entry cursor, and whether
\* _readEntryAt finds one there.
HeaderAtCursor == ReadEntryAt(file, zip.footerOffset, zip._entryCursor)
ReadsHeader == ~HeaderAtCursor.fails /\ HeaderAtCursor.value # << >>

\* The header is one of Mac Archive Utility's and the offset stored in it is
\* the low 32 bits of the file cursor.
FitsMacArchive(p) ==
    EntryMaybeMac(p) /\ p.fileHeaderOffset = Num(zip._fileCursor) % FOUR_GIB

\* The Entry that a step of readEntry has made.
EntryMade == entries'[Len(entries) + 1]

\* Every entry returned so far has the Mac entry signature.
ReturnedEntriesAreMac(es) == \A i \in 1 .. Len(es) : EntryMaybeMac(es[i])

\* C29: while isMacArchive is true, readEntry returns an entry read from the
\* central directory only if the header matches the Mac entry signature and
\* its stored header offset equals the file cursor mod 2^32, and otherwise
\* fails with "Inconsistent Central Directory structure"; the entry returned
\* carries the whole file cursor as its header offset.  Hence whenever
\* isMacArchive is true every entry returned so far matched the signature.
C29_MacArchiveReturnsOnlyMacEntries ==
    [][ /\ (ReadEntryAtRead /\ zip.isMacArchive /\ ReadsHeader
              /\ ~FitsMacArchive(HeaderAtCursor.value[1]))
            => /\ re'.pc = "settle"
               /\ re'.result = Err("Inconsistent Central Directory structure")
               /\ entries' = entries
        /\ ((ReadEntryAtRead \/ ReadEntryDdRead) /\ zip.isMacArchive
              /\ Len(entries') = Len(entries) + 1)
            => /\ ReadsHeader
               /\ FitsMacArchive(HeaderAtCursor.value[1])
               /\ EntryMade.fileHeaderOffset = zip._fileCursor
               /\ re'.result = Ok(Len(entries) + 1)
        /\ zip'.isMacArchive => ReturnedEntriesAreMac(entries') ]_vars

\* readEntry has returned the second entry of a Mac archive, read from the
\* central directory at a file cursor past the first entry's data.
C29_Witness ==
    /\ zip.isMacArchive
    /\ out.op = "readEntry" /\ ~out.fails /\ out.entry = 2
    /\ entries[2].fileHeaderOffset >= FOUR_GIB
    /\ zip._fileCursor > entries[2].fileHeaderOffset

\* readEntry has read, in the maybe-Mac state, a header that violates the Mac
\* entry signature or whose offset is not the one the file cursor predicts.
ReadsMisfitWhileMaybeMac ==
    /\ ReadEntryAtRead
    /\ ~zip.isMacArchive /\ zip.isMaybeMacArchive
    /\ ReadsHeader
    /\ ~FitsMacArchive(HeaderAtCursor.value[1])

\* The archive is demoted to not-Mac.
Demoted ==
    /\ ~zip'.isMacArchive /\ ~zip'.isMaybeMacArchive
    /\ zip'.entryCountIsCertain /\ zip'.centralDirectorySizeIsCertain
    /\ zip'.compressedSizesAreCertain /\ zip'.uncompressedSizesAreCertain
    /\ zip'._fileCursor = NULL

\* The call is answered as for any entry of an archive that is not Mac: with
\* a new Entry of the header's values, the cursor past the header and the
\* entry counted, or with the error of the entry's validation.
ReturnedNormally ==
    LET p == HeaderAtCursor.value[1]
    IN  /\ re'.pc = "settle"
        /\ \/ /\ re'.result = Ok(Len(entries) + 1)
              /\ Len(entries') = Len(entries) + 1
              /\ EntryMade.fileHeaderOffset = p.fileHeaderOffset
              /\ EntryMade.compressedSize = p.compressedSize
              /\ EntryMade.uncompressedSize = p.uncompressedSize
              /\ EntryMade.uncompressedSizeIsCertain
              /\ zip'._entryCursor = p.entryEnd
              /\ zip'.numEntriesRead = zip.numEntriesRead + 1
           \/ /\ re'.result.fails
              /\ re'.result.error = ValidateAndDecodeEntry(zip', p).error
              /\ Len(entries') = Len(entries)
              /\ zip'._entryCursor = zip._entryCursor
              /\ zip'.numEntriesRead = zip.numEntriesRead

TOO_MANY_ENTRIES == "Central Directory contains too many entries"

\* Demotion, then the entry or, the declared count being reached already,
\* the error.
DemotesAndReturns ==
    /\ Demoted
    /\ IF zip.numEntriesRead = zip.entryCount
       THEN /\ re'.pc = "settle"
            /\ re'.result = Err(TOO_MANY_ENTRIES)
            /\ Len(entries') = Len(entries)
       ELSE ReturnedNormally

\* C30 as stated: in the maybe-Mac state, whenever readEntry reads a header
\* that violates the Mac entry signature or whose header offset is not the
\* one the file cursor predicts, the archive is demoted to not-Mac (all
\* certainty flags certain, file cursor null) and the entry is returned
\* normally, unless the declared entry count had already been reached, in
\* which case readEntry fails with "Central Directory contains too many
\* entries".
C30_AsStated ==
    [][ ReadsMisfitWhileMaybeMac => DemotesAndReturns ]_vars

\* C30, amended: so it is while the file cursor is below 4 GiB; from 4 GiB
\* on such a header makes readEntry fail with "Inconsistent Central
\* Directory structure", and the archive stays maybe-Mac.
C30_MisfitDemotesBelowFourGib ==
    [][ ReadsMisfitWhileMaybeMac
          => IF Num(zip._fileCursor) < FOUR_GIB
             THEN DemotesAndReturns
             ELSE /\ re'.pc = "settle"
                  /\ re'.result = Err("Inconsistent Central Directory structure")
                  /\ zip' = zip
                  /\ entries' = entries ]_vars

\* A maybe-Mac archive has been demoted by a header read by readEntry, which
\* has returned the entry.
C30_Witness ==
    /\ ~zip.isMacArchive /\ ~zip.isMaybeMacArchive
    /\ zip.supportMacArchive
    /\ zip.numEntriesRead >= 2
    /\ out.op = "readEntry" /\ ~out.fails /\ out.entry = zip.numEntriesRead
    /\ EntryMaybeMac(entries[1])
    /\ ~EntryMaybeMac(entries[zip.numEntriesRead])

MISIDENTIFIED == "Misidentified Mac OS Archive Utility ZIP"

\* The Local File Header read of the openReadStream call in slot k has
\* returned a header, which the call now judges.
JudgesHeader(k) ==
    /\ OpenReadStreamLfhRead
    /\ streams[k].pc = "lfh" /\ streams'[k].pc # "lfh"
    /\ LET offset == FdReadOffset(file, reader, entries[streams[k].entry].fileHeaderOffset,
                                  LFH_LENGTH)
       IN  offset # NULL /\ offset \in DOMAIN file.lfh

\* The header it read, and whether it has the Mac local-header signature.
JudgedHeader(k) ==
    file.lfh[FdReadOffset(file, reader, entries[streams[k].entry].fileHeaderOffset,
                          LFH_LENGTH)]
JudgedHeaderMatches(k) == MatchesMacSignature(entries[streams[k].entry], JudgedHeader(k))

\* The call in slot k goes on as for any archive: it returns the stream, or
\* fails for the file data's bounds or in createReadStream.
OpenedNormally(k) ==
    \/ /\ streams'[k].pc = "flowing"
       /\ out' = Out("openReadStream", Ok(streams[k].entry), streams[k].entry)
    \/ /\ streams'[k] = FreeStream
       /\ out'.op = "openReadStream" /\ out'.fails
       /\ out'.error \in {"File data overflows file bounds", NOT_OPEN_STREAM, NO_DESCRIPTOR}

\* C31: openReadStream judges the Local File Header against the Mac state as
\* it is once the header read has completed: if the archive is definitely
\* Mac and the header does not match the Mac local-header signature, the call
\* fails with "Misidentified Mac OS Archive Utility ZIP" and opens no stream;
\* if the archive is maybe-Mac and the header does not match, the archive is
\* demoted to not-Mac and the stream is opened normally; if the header
\* matches, no Mac state changes.
C31_HeaderJudgedAgainstMacState ==
    [][ \A k \in 1 .. MaxStreams : JudgesHeader(k) =>
          /\ (zip.isMacArchive /\ ~JudgedHeaderMatches(k))
               => /\ out' = Out("openReadStream", Err(MISIDENTIFIED), streams[k].entry)
                  /\ streams'[k] = FreeStream
                  /\ zip' = zip
          /\ (~zip.isMacArchive /\ zip.isMaybeMacArchive /\ ~JudgedHeaderMatches(k))
               => /\ PlainlyNotMac(zip') /\ zip'._fileCursor = NULL
                  /\ OpenedNormally(k)
          /\ JudgedHeaderMatches(k)
               => /\ MacState(zip') = MacState(zip)
                  /\ OpenedNormally(k)
          /\ (~zip.isMacArchive /\ ~zip.isMaybeMacArchive)
               => /\ zip' = zip
                  /\ OpenedNormally(k) ]_vars

\* A maybe-Mac archive has been demoted by an openReadStream call whose
\* header did not match, and the call has returned its stream.
C31_Witness ==
    /\ zip.supportMacArchive /\ PlainlyNotMac(zip)
    /\ out.op = "openReadStream" /\ ~out.fails
    /\ \E k \in 1 .. MaxStreams :
         /\ streams[k].pc = "flowing" /\ streams[k].entry = out.entry
         /\ EntryMaybeMac(entries[out.entry])
         /\ entries[out.entry].fileHeaderOffset \in DOMAIN file.lfh
         /\ ~MatchesMacSignature(entries[out.entry],
                                 file.lfh[entries[out.entry].fileHeaderOffset])
         /\ streams[k].outLeft > 0 /\ streams[k].byteCount = 0

\* A chunk takes the size validation stream of slot k past the size it
\* expects.
Overflows(k) ==
    /\ StreamData
    /\ streams[k].pc = "flowing" /\ streams[k].validateSize
    /\ streams[k].outLeft > 0
    /\ streams'[k] # streams[k]
    /\ streams[k].byteCount + Min(streams[k].outLeft, MAX_CHUNK) > streams[k].expectedByteCount

\* The bytes slot k has counted once the chunk is through.
CountedAfter(k) == streams[k].byteCount + Min(streams[k].outLeft, MAX_CHUNK)

\* C32: when several decompressing streams of the same entry of uncertain
\* size run interleaved, each overflow past the size currently expected
\* enlarges entry.uncompressedSize by 2^32 once in total (a stream that
\* overflows after another stream has enlarged the size adopts the new size),
\* a maybe-Mac archive is promoted to Mac at the first enlargement, and
\* entry.uncompressedSize never decreases; an overflow on an entry whose size
\* is certain fails the stream instead.
C32_OverflowEnlargesOnce ==
    [][ /\ \A i \in DOMAIN entries :
             /\ entries'[i].uncompressedSize >= entries[i].uncompressedSize
             /\ entries'[i].uncompressedSize # entries[i].uncompressedSize
                  => /\ entries'[i].uncompressedSize = entries[i].uncompressedSize + FOUR_GIB
                     /\ ~entries[i].uncompressedSizeIsCertain
                     /\ zip.isMaybeMacArchive => zip'.isMacArchive
                     /\ zip.isMacArchive => zip' = zip
                     /\ \E k \in 1 .. MaxStreams :
                          /\ Overflows(k) /\ streams[k].entry = i
                          /\ CountedAfter(k) > entries[i].uncompressedSize
                          /\ CountedAfter(k) <= entries'[i].uncompressedSize
                          /\ streams'[k].expectedByteCount = entries'[i].uncompressedSize
        /\ \A k \in 1 .. MaxStreams : Overflows(k) =>
             LET i == streams[k].entry
             IN  IF entries[i].uncompressedSizeIsCertain
                 THEN /\ out' = Out("stream", Err("Too many bytes in the stream"), i)
                      /\ streams'[k].pc \in {"errored", "free"}
                      /\ entries' = entries /\ zip' = zip
                 ELSE IF entries[i].uncompressedSize = streams[k].expectedByteCount
                 THEN entries'[i].uncompressedSize = entries[i].uncompressedSize + FOUR_GIB
                 ELSE /\ entries' = entries /\ zip' = zip
                      /\ streams'[k].pc = "flowing"
                      /\ streams'[k].expectedByteCount = entries[i].uncompressedSize
        /\ \A k \in 1 .. MaxStreams :
             (streams'[k].pc = "flowing" /\ streams'[k].validateSize)
               => streams'[k].expectedByteCount <= entries'[streams'[k].entry].uncompressedSize
      ]_vars

\* Two decompressing streams of one entry are flowing: one has enlarged the
\* entry's size, the other, opened with the size as stated, has overflowed
\* since and adopted the new size.
C32_Witness ==
    /\ zip.isMacArchive
    /\ streams[1].pc = "flowing" /\ streams[2].pc = "flowing"
    /\ streams[1].validateSize /\ streams[2].validateSize
    /\ streams[1].entry = streams[2].entry
    /\ ~entries[streams[1].entry].uncompressedSizeIsCertain
    /\ entries[streams[1].entry].uncompressedSize >= FOUR_GIB
    /\ streams[1].expectedByteCount = entries[streams[1].entry].uncompressedSize
    /\ streams[2].expectedByteCount = entries[streams[1].entry].uncompressedSize
    /\ streams[1].byteCount > 0 /\ streams[2].byteCount > 0
    /\ streams[1].byteCount < FOUR_GIB /\ streams[2].byteCount < FOUR_GIB

LOGIC_FAILURE == "Logic failure. Please raise an issue."

\* C33: neither "Logic failure. Please raise an issue." branch is reachable:
\* in no interleaving of readEntry, openReadStream and stream events does
\* readEntry find the set of uncertain entries missing while registering an
\* uncertain entry of a maybe-Mac archive, and in no interleaving does a
\* stream overflow an entry of uncertain uncompressed size while the archive
\* is neither Mac nor maybe-Mac.  No call and no stream has failed with that
\* error, a maybe-Mac archive has its set, and an entry's size is uncertain
\* only in a Mac or maybe-Mac archive.
C33_LogicFailureUnreachable ==
    /\ out.error # LOGIC_FAILURE
    /\ re.result.error # LOGIC_FAILURE
    /\ (~zip.isMacArchive /\ zip.isMaybeMacArchive)
         => zip._uncertainUncompressedSizeEntryRefs # NULL_REFS
    /\ \A i \in DOMAIN entries :
         ~entries[i].uncompressedSizeIsCertain
           => (zip.isMacArchive \/ zip.isMaybeMacArchive)

\* readEntry has registered an uncertain entry of a maybe-Mac archive, and a
\* decompressing stream of that entry, with more bytes to come than the
\* entry states, is flowing while another readEntry is waiting for its read.
C33_Witness ==
    /\ ~zip.isMacArchive /\ zip.isMaybeMacArchive
    /\ re.pc = "readAt"
    /\ \E k \in 1 .. MaxStreams :
         /\ streams[k].pc = "flowing" /\ streams[k].validateSize
         /\ streams[k].outLeft > streams[k].expectedByteCount
         /\ streams[k].entry \in zip._uncertainUncompressedSizeEntryRefs
         /\ entries[streams[k].entry]._ref
         /\ ~entries[streams[k].entry].uncompressedSizeIsCertain

\* C34: in every state after a successful init in which isMacArchive is
\* true, the Central Directory is packed up to the footer:
\* centralDirectoryOffset + centralDirectorySize = footerOffset, whichever
\* path made the archive Mac (sizes and count at odds, a relocated
\* directory, a missing ZIP64 locator, or a later promotion from maybe-Mac).
C34_MacDirectoryPackedToFooter ==
    (ini.pc = "done" /\ zip.isMacArchive)
      => zip.centralDirectoryOffset + zip.centralDirectorySize = zip.footerOffset

\* C35: the compressed sizes are uncertain only while the archive is
\* definitely Mac: in every reachable state compressedSizesAreCertain = false
\* implies isMacArchive = true, so the compressed-size resolver, which runs
\* only when the sizes are uncertain, never runs on a maybe-Mac or
\* spec-compliant archive, and its branches that demote the archive or fail
\* for a non-Mac archive are never taken.
ResolverIsSearching == re.pc = "dd"

OnlyUndoesTruncation(now, stored, m) ==
    /\ now # NULL
    /\ now >= stored
    /\ (now - stored) % m = 0

\* The Central Directory header of the i-th entry in directory order.
NthHeader(i) ==
    file.cdh[CHOOSE o \in DOMAIN file.cdh :
               Cardinality({o2 \in DOMAIN file.cdh : o2 < o}) = i - 1]

EocdrIsParsed == zip.entryCount # NULL /\ zip.footerOffset \in DOMAIN file.eocdr

EntriesOnlyUndoTruncation ==
    \A i \in DOMAIN entries :
       /\ OnlyUndoesTruncation(entries[i].compressedSize, NthHeader(i).compressedSize, FOUR_GIB)
       /\ OnlyUndoesTruncation(entries[i].uncompressedSize, NthHeader(i).uncompressedSize,
                               FOUR_GIB)
       /\ OnlyUndoesTruncation(entries[i].fileHeaderOffset, NthHeader(i).fileHeaderOffset,
                               FOUR_GIB)

FooterOnlyUndoesTruncation ==
    /\ OnlyUndoesTruncation(zip.entryCount, StatedEocdr.entryCount, U16_RANGE)
    /\ OnlyUndoesTruncation(zip.centralDirectoryOffset, StatedEocdr.centralDirectoryOffset,
                            FOUR_GIB)

C36_WitnessCount ==
    /\ EocdrIsParsed
    /\ ~zip.isZip64
    /\ zip.entryCount > StatedEocdr.entryCount

\* A stream enlarged an entry's uncompressed size above the stored one.
C36_WitnessUncompressed ==
    /\ ~zip.isZip64
    /\ \E i \in DOMAIN entries :
          entries[i].uncompressedSize > NthHeader(i).uncompressedSize

\* init() returns an error, which open(), fromFd(), fromBuffer() and
\* fromReader() return to their caller at once (part_004 28-31, 56-59, 82-85,
\* 110-113).
FactoryReturnsInitError == ini.pc # "failed" /\ ini'.pc = "failed"

\* C37: when a factory call returns an error after it has opened the reader
\* (because init fails), the reader it opened has been closed again: no
\* reader or file descriptor is left open by a failed factory call.
C37_FailedFactoryClosesReader ==
    [][FactoryReturnsInitError => (~reader'._isOpen /\ ~reader'.fd)]_vars

\* A step in which the subclass hook _close() is invoked.
CloseHookInvoked == reader'.closeCalls > reader.closeCalls

\* C38: for every interleaving of concurrent close() calls on an open
\* reader, including calls that both wait for outstanding reads to drain,
\* the subclass hook _close() is invoked at most once: it is invoked only on
\* a reader that is still open, which the invocation closes.
C38_CloseHookInvokedAtMostOnce ==
    [][CloseHookInvoked => (reader._isOpen /\ ~reader'._isOpen)]_vars

\* A step in which readEntry makes the entry it returns.
MakesEntry == Len(entries') = Len(entries) + 1

\* Every successful readEntry strictly increases the entry cursor.
EntryAdvancesCursor == MakesEntry => zip'._entryCursor > zip._entryCursor

\* The cursor never exceeds footerOffset, so at most
\* (footerOffset - centralDirectoryOffset) / 46 entries are ever returned
\* (46: the minimum length of a Central Directory header).
CursorWithinFooter ==
    ini.pc = "done" => zip._entryCursor <= zip.footerOffset
EntriesBoundedByDirectory ==
    ini.pc = "done"
      => zip.numEntriesRead * CDH_MIN_LENGTH <= zip.footerOffset - zip.centralDirectoryOffset

\* The Central Directory search of init steps down by 4 GiB and stays above
\* the offset already checked; the Data Descriptor search steps up by 4 GiB
\* and stays below the Central Directory.
SearchProbesDescend ==
    (ini.pc = "search" /\ ini'.pc = "search")
      => /\ ini'.offset = ini.offset - FOUR_GIB
         /\ ini'.offset > Num(ini.alreadyCheckedOffset)
         /\ ini'.offset >= 0
DescriptorProbesAscend ==
    (re.pc = "dd" /\ re'.pc = "dd")
      => /\ re'.fileDataEnd = re.fileDataEnd + FOUR_GIB
         /\ re'.fileDataEnd + DATA_DESCRIPTOR_LENGTH <= zip.centralDirectoryOffset

CursorWithinFooterOnceRead ==
    ini.pc = "done"
      => \/ zip._entryCursor <= zip.footerOffset
         \/ zip.numEntriesRead = 0 /\ zip._entryCursor = zip.centralDirectoryOffset
EntriesBoundedByDirectoryOnceRead ==
    (ini.pc = "done" /\ zip.numEntriesRead > 0)
      => zip.numEntriesRead * CDH_MIN_LENGTH <= zip.footerOffset - zip.centralDirectoryOffset

C39_WitnessSearch ==
    /\ ini.pc = "search"
    /\ ini.offset + FOUR_GIB
         + Max(zip.centralDirectorySize, zip.entryCount * CDH_MIN_LENGTH) <= zip.footerOffset

\* The Data Descriptor search is at its second probe or a later one.
C39_WitnessDescriptor ==
    /\ re.pc = "dd"
    /\ re.fileDataEnd >= re.fileDataOffsetIfMac + re.props[1].compressedSize + FOUR_GIB

\* _readEntry has returned null / a call of readEntry() passes the guard and
\* starts _readEntry (by a caller or by readEntries).
ReturnedNull == re.pc = "settle" /\ re.result = OK_NULL
ReadEntryStarts == re.pc = "idle" /\ re'.pc # "idle"

\* The Zip without the guard flag that every call sets and clears again.
ArchiveState(z) == [z EXCEPT !._isReading = FALSE]

\* C40: exhaustion is stable: once readEntry has returned null (the entries
\* read equal an entry count that is certain), it stays so whatever
\* openReadStream calls, stream events and close() calls happen in between,
\* and every later readEntry call that the re-entrancy guard lets through
\* also returns null, performs no read and changes no archive state.
C40_ExhaustionIsStable ==
    /\ [](ReturnedNull => ReadEntryExhausted(zip))
    /\ [][ReadEntryExhausted(zip) => ReadEntryExhausted(zip')]_vars
    /\ [][(ReadEntryStarts /\ ReadEntryExhausted(zip))
            => /\ re'.pc = "settle" /\ re'.result = OK_NULL
               /\ reader' = reader
               /\ entries' = entries
               /\ ArchiveState(zip') = ArchiveState(zip)]_vars
    /\ [][(ReadEntrySettle /\ ReadEntryExhausted(zip)) => ArchiveState(zip') = ArchiveState(zip)]_vars

\* A readEntry call on an exhausted archive has returned null again, with a
\* stream of an earlier entry still flowing.
C40_Witness ==
    /\ ReturnedNull
    /\ out.op = "readEntry" /\ ~out.fails /\ out.entry = 0
    /\ zip.numEntriesRead > 0
    /\ \E k \in 1 .. MaxStreams : streams[k].pc = "flowing"

====
